---- MODULE Spec2Model ----
(***************************************************************************)
(* A model of the Deep Sea Sim engine (game_data crate): the board of      *)
(* tiles, the EntityManager registry, the entities' life cycle and AI, and *)
(* the four-phase tick of Sandbox::run_game_loop with its decision channel.*)
(***************************************************************************)
EXTENDS Integers, Sequences, FiniteSets, TLC

\* ------------------------------------------------------------------ bounds
\* Board dimensions (Board::new(rows, cols, ..)): run-time inputs.
Rows == 3
Cols == 3
\* Number of iterations of run_game_loop that are explored.
MaxTicks == 2
\* Number of booleans the display sends on the decision channel in a run.
MaxSent == 3
\* Number of Tile calls explored by the tile-level specification.
MaxCalls == 4

\* --------------------------------------------------------- program constants
MAX_PREGNANCY_LEVEL == 100
MAXIMUM_ACTIONS_TO_CONSIDER == 5000

\* ------------------------------------------------------------------- Pos
Pos(x, y) == [x |-> x, y |-> y]
Positions == {Pos(x, y) : x \in 0..(Cols - 1), y \in 0..(Rows - 1)}
\* Option<Pos>::None
NoPos == Pos(-1, -1)
\* Option<EntityID>::None
NoId == 0

\* ------------------------------------------------------------- behaviours
\* AIConcreteBehaviors: Idle(IdleAction), Eating(EatAction), Mating(MateAction)
IdleAction_new(mate_adjacent, feed_adjacent) ==
    [tag |-> "Idle", mate_adjacent |-> mate_adjacent, feed_adjacent |-> feed_adjacent,
     very_hungry |-> FALSE, should_keep_chasing |-> FALSE, done |-> FALSE]

EatAction_new(starving) ==
    [tag |-> "Eating", mate_adjacent |-> FALSE, feed_adjacent |-> FALSE,
     very_hungry |-> starving, should_keep_chasing |-> TRUE, done |-> FALSE]

MateAction_new ==
    [tag |-> "Mating", mate_adjacent |-> FALSE, feed_adjacent |-> FALSE,
     very_hungry |-> FALSE, should_keep_chasing |-> FALSE, done |-> FALSE]

\* --------------------------------------------------------------- entities
AnimalKinds == {"Fish", "Crab", "Shark"}
PlantKinds == {"Kelp", "KelpLeaf", "KelpSeed"}
DecorationKinds == {"Rock", "Shell"}

\* impl From<i64> for HungerLevel
HungerLevel_from(value) ==
    IF value >= 51 THEN "Full"
    ELSE IF value >= 1 THEN "Hungry"
    ELSE IF value >= -24 THEN "Starving"
    ELSE "Famished"

\* The empty Option<Entity> of a tile.
NoEntity ==
    [kind |-> "None", id |-> NoId, hp |-> 0, hp_max |-> 0, has_died |-> FALSE,
     age |-> 0, hunger |-> "Full", hunger_level |-> 0, sex |-> "Neutral",
     pregnant |-> FALSE, pregnancy_level |-> 0, ticks_since_last_mating |-> 0,
     growth_level |-> 0, current_behavior |-> IdleAction_new(FALSE, FALSE)]

\* AnimalType::new: hp_max = hp, hunger Full at level 100, alive, age 0, not
\* pregnant, cooldown counter 0, behaviour Idle(true, true).
AnimalType_new(kind, hp, id, sex) ==
    [NoEntity EXCEPT !.kind = kind, !.id = id, !.hp = hp, !.hp_max = hp,
                     !.hunger = "Full", !.hunger_level = 100, !.sex = sex,
                     !.current_behavior = IdleAction_new(TRUE, TRUE)]

\* Plant::new: growth_level 0, hp_max 0, hp as given, age 0, alive.
Plant_new(kind, hp, entity_id) ==
    [NoEntity EXCEPT !.kind = kind, !.id = entity_id, !.hp = hp, !.hp_max = 0]

\* The fixed per-species arguments of ConcreteAnimals::create_new.
animal_hp(kind) == CASE kind = "Fish" -> 100 [] kind = "Crab" -> 150 [] OTHER -> 200
pregnancy_step(kind) == CASE kind = "Fish" -> 5 [] kind = "Crab" -> 3 [] OTHER -> 10
mating_cooldown(kind) == CASE kind = "Fish" -> 100 [] kind = "Crab" -> 200 [] OTHER -> 50
max_x_movespeed(kind) == CASE kind = "Fish" -> 1 [] kind = "Crab" -> 3 [] OTHER -> 3
max_y_movespeed(kind) == CASE kind = "Fish" -> 1 [] kind = "Crab" -> 1 [] OTHER -> 3
animal_max_age(kind) == CASE kind = "Fish" -> 300 [] kind = "Crab" -> 1000 [] OTHER -> 125

\* The fixed per-species arguments of ConcretePlants::create_new.
max_growth(kind) == CASE kind = "Kelp" -> 65 [] kind = "KelpLeaf" -> 15 [] OTHER -> 50
plant_hp(kind) == IF kind = "Kelp" THEN 2 ELSE 1
\* Option<usize> max_age of a plant: -1 stands for None.
plant_max_age(kind) == IF kind = "Kelp" THEN 200 ELSE -1

\* The sexes AnimalType::new can draw: crabs are created with the override
\* Some(Sex::Neutral), fish and sharks with a coin flip.
NewAnimalSexes(kind) == IF kind = "Crab" THEN {"Neutral"} ELSE {"Male", "Female"}

\* ConcreteAnimals::create_new, with the sex the coin flip gave.
ConcreteAnimals_create_new(kind, entity_id, sex) ==
    AnimalType_new(kind, animal_hp(kind), entity_id, sex)

\* ConcretePlants::create_new
ConcretePlants_create_new(kind, id) == Plant_new(kind, plant_hp(kind), id)

\* ConcreteDecorations::create_new
ConcreteDecorations_create_new(kind) == [NoEntity EXCEPT !.kind = kind]

IsAnimal(e) == e.kind \in AnimalKinds
IsPlant(e) == e.kind \in PlantKinds
IsNonLiving(e) == e.kind \in DecorationKinds

\* impl TrackedEntity for Entity
Entity_tracked(e) == IsAnimal(e) \/ IsPlant(e)
Entity_get_id(e) == IF IsNonLiving(e) THEN NoId ELSE e.id
\* register: Living stores the id (Ok), NonLiving refuses it (Err, unchanged).
Entity_register(e, id) == IF IsNonLiving(e) THEN e ELSE [e EXCEPT !.id = id]

\* ---------------------------------------------------------- EntityManager
\* The registry value: current_largest_entity_id and active_entities of the
\* struct; issued is a history of the ids handed out, in order.
EntityManager_new ==
    [current_largest_entity_id |-> 0, active_entities |-> <<>>, issued |-> <<>>]

MapInsert(m, k, v) == [i \in (DOMAIN m) \cup {k} |-> IF i = k THEN v ELSE m[i]]
MapRemove(m, k) == [i \in (DOMAIN m) \ {k} |-> m[i]]


\* EntityManager::update_position that never forgets an entry: None leaves the
\* map as it is.
update_position_keep(em, entity, new_position) ==
    IF new_position = NoPos THEN em
    ELSE [em EXCEPT !.active_entities = MapInsert(@, entity, new_position)]

\* EntityManager::update_position
update_position(em, entity, new_position) ==
    IF new_position # NoPos
    THEN [em EXCEPT !.active_entities = MapInsert(@, entity, new_position)]
    ELSE [em EXCEPT !.active_entities = MapRemove(@, entity)]

\* A registry that hands out the lowest id not in use.
register_new_entity_reuse(em, new_position, entity) ==
    LET free == CHOOSE i \in 1..(Cardinality(DOMAIN em.active_entities) + 1) :
                   /\ i \notin DOMAIN em.active_entities
                   /\ \A j \in 1..(i - 1) : j \in DOMAIN em.active_entities
    IN [em |-> [em EXCEPT !.current_largest_entity_id = free,
                          !.active_entities = MapInsert(@, free, new_position),
                          !.issued = Append(@, free)],
        entity |-> Entity_register(entity, free),
        id |-> free]

\* EntityManager::register_new_entity
register_new_entity(em, new_position, entity) ==
    LET new_ent_id == em.current_largest_entity_id + 1
    IN [em |-> [em EXCEPT !.current_largest_entity_id = new_ent_id,
                          !.active_entities = MapInsert(@, new_ent_id, new_position),
                          !.issued = Append(@, new_ent_id)],
        entity |-> Entity_register(entity, new_ent_id),
        id |-> new_ent_id]

\* EntityManager::get_active_positions
get_active_positions(em) == {em.active_entities[i] : i \in DOMAIN em.active_entities}

\* ------------------------------------------------------------------- Tile
\* A world value w = [board, em]: the tiles' entities and the registry the
\* tiles share.
is_occupied(board, position) == board[position].kind # "None"

\* Tile::remove_entity that leaves the registry as it is.
remove_entity_keep_entry(w, position) ==
    LET res == w.board[position]
    IN [entity |-> res,
        w |-> IF res.kind = "None" THEN w
              ELSE [board |-> [w.board EXCEPT ![position] = NoEntity], em |-> w.em]]

\* Tile::remove_entity: take the entity; a tracked one that carries an id
\* loses its registry entry.
remove_entity(w, position) ==
    LET res == w.board[position]
    IN [entity |-> res,
        w |-> IF res.kind = "None" THEN w
              ELSE [board |-> [w.board EXCEPT ![position] = NoEntity],
                    em |-> IF Entity_tracked(res) /\ Entity_get_id(res) # NoId
                           THEN update_position(w.em, Entity_get_id(res), NoPos)
                           ELSE w.em]]

\* Tile::add_entity without the occupancy test: the newcomer replaces the
\* occupant.
add_entity_overwrite(w, position, entity) ==
    IF Entity_tracked(entity)
    THEN LET r == IF Entity_get_id(entity) # NoId
                  THEN [em |-> w.em, entity |-> entity, id |-> Entity_get_id(entity)]
                  ELSE register_new_entity(w.em, position, entity)
         IN [ok |-> TRUE, err |-> NoEntity,
             w |-> [board |-> [w.board EXCEPT ![position] = r.entity],
                    em |-> update_position(r.em, r.id, position)]]
    ELSE [ok |-> TRUE, err |-> NoEntity,
          w |-> [board |-> [w.board EXCEPT ![position] = entity], em |-> w.em]]

\* Tile::add_entity: Err(entity) on an occupied tile; otherwise a tracked
\* entity keeps its id or is issued one, the registry maps the id to this
\* tile, and the tile stores the entity.
add_entity(w, position, entity) ==
    IF is_occupied(w.board, position)
    THEN [ok |-> FALSE, err |-> entity, w |-> w]
    ELSE IF Entity_tracked(entity)
    THEN LET r == IF Entity_get_id(entity) # NoId
                  THEN [em |-> w.em, entity |-> entity, id |-> Entity_get_id(entity)]
                  ELSE register_new_entity(w.em, position, entity)
         IN [ok |-> TRUE, err |-> NoEntity,
             w |-> [board |-> [w.board EXCEPT ![position] = r.entity],
                    em |-> update_position(r.em, r.id, position)]]
    ELSE [ok |-> TRUE, err |-> NoEntity,
          w |-> [board |-> [w.board EXCEPT ![position] = entity], em |-> w.em]]

\* ------------------------------------------------------------------ Board
\* Board::new: every tile empty.
Board_new == [p \in Positions |-> NoEntity]

\* Board::is_valid_pos (a usize position is never negative)
is_valid_pos(pos) == pos.y < Rows /\ pos.x < Cols

Max(a, b) == IF a >= b THEN a ELSE b
Min(a, b) == IF a <= b THEN a ELSE b

\* Board::range that scans the whole square around center, clipped at 0 only.
range_unclipped(max_y, max_x, radius, include_self, center) ==
    LET ylo == Max(center.y - radius, 0)
        yhi == center.y + radius
        xlo == Max(center.x - radius, 0)
        xhi == center.x + radius
        wd == xhi - xlo + 1
        ht == yhi - ylo + 1
        all == [k \in 1..(wd * ht) |-> Pos(xlo + ((k - 1) % wd), ylo + ((k - 1) \div wd))]
    IN SelectSeq(all, LAMBDA p : include_self \/ p # center)

\* Board::range on a board whose last row is max_y and last column max_x:
\* row-major scan of the clipped square around center (an empty scan when a
\* lower end lies above its upper end).
range_on(max_y, max_x, radius, include_self, center) ==
    LET ylo == Max(center.y - radius, 0)
        yhi == Min(center.y + radius, max_y)
        xlo == Max(center.x - radius, 0)
        xhi == Min(center.x + radius, max_x)
        wd == Max(xhi - xlo + 1, 0)
        ht == Max(yhi - ylo + 1, 0)
        all == [k \in 1..(wd * ht) |-> Pos(xlo + ((k - 1) % wd), ylo + ((k - 1) \div wd))]
    IN SelectSeq(all, LAMBDA p : include_self \/ p # center)

\* Board::range on the board of the simulation.
range(radius, include_self, center) ==
    range_on(Rows - 1, Cols - 1, radius, include_self, center)

\* ------------------------------------------------------- Lives for Animals
\* Animals::die
Animals_die(a) == [a EXCEPT !.has_died = TRUE]

\* Animals::modify_health without the clamp to 0..hp_max.
Animals_modify_health_unclamped(a, delta) ==
    LET b == [a EXCEPT !.hp = a.hp + delta]
    IN IF b.hp = 0 THEN Animals_die(b) ELSE b

\* Animals::modify_health: hp = min(max(hp + delta, 0), hp_max); die at 0.
Animals_modify_health(a, delta) ==
    LET b == [a EXCEPT !.hp = Min(Max(a.hp + delta, 0), a.hp_max)]
    IN IF b.hp = 0 THEN Animals_die(b) ELSE b

\* Animals::process_health in which a famished animal loses no health.
Animals_process_health_no_famine(a) ==
    LET heal_rate == CASE a.hunger = "Full" -> 2
                       [] a.hunger = "Hungry" -> 1
                       [] OTHER -> 0
    IN Animals_modify_health(a, heal_rate)

\* Animals::process_health: the heal rate of the stored hunger bucket.
Animals_process_health(a) ==
    LET heal_rate == CASE a.hunger = "Full" -> 2
                       [] a.hunger = "Hungry" -> 1
                       [] a.hunger = "Starving" -> 0
                       [] OTHER -> -2
    IN Animals_modify_health(a, heal_rate)

\* The per-species decrement of Animals::process_hunger.
hunger_rate(kind) == CASE kind = "Fish" -> 2 [] kind = "Shark" -> 3 [] OTHER -> 1

\* Animals::process_hunger with the crab's decrement for every species.
Animals_process_hunger_flat(a) ==
    LET lvl == a.hunger_level - 1
    IN [a EXCEPT !.hunger_level = lvl, !.hunger = HungerLevel_from(lvl)]

\* Animals::process_hunger
Animals_process_hunger(a) ==
    LET lvl == a.hunger_level - hunger_rate(a.kind)
    IN [a EXCEPT !.hunger_level = lvl, !.hunger = HungerLevel_from(lvl)]

\* Animals::process_age
Animals_process_age(a) ==
    LET b == [a EXCEPT !.age = a.age + 1]
    IN IF b.age >= animal_max_age(b.kind) THEN Animals_die(b) ELSE b

\* Animals::process_mating (process_life_misc)
Animals_process_mating(a) ==
    LET b == [a EXCEPT !.ticks_since_last_mating = a.ticks_since_last_mating + 1]
    IN IF ~b.pregnant THEN b
       ELSE [b EXCEPT !.pregnancy_level = b.pregnancy_level + pregnancy_step(b.kind)]

\* Lives::life for an animal (will_ever_live is !has_died).
Animals_life(a) ==
    IF a.has_died THEN a
    ELSE Animals_process_mating(Animals_process_age(
             Animals_process_hunger(Animals_process_health(a))))

\* PostProcessResult values; positions is the Vec<Pos> of
\* MarkTheseAsInteresting, entity the Entity of ReplaceMeWith.
Hint(tag, entity, positions) == [tag |-> tag, entity |-> entity, positions |-> positions]
NoHint == Hint("None", NoEntity, <<>>)
DeleteHint == Hint("Delete", NoEntity, <<>>)

\* Animals::late_process of animals that leave a corpse (delete_on_death
\* false): no Delete hint.
Animals_late_process_corpse(a) ==
    [entity |-> Animals_life(a), hint |-> NoHint]

\* Animals::late_process
Animals_late_process(a) ==
    LET b == Animals_life(a)
    IN [entity |-> b, hint |-> IF b.has_died THEN DeleteHint ELSE NoHint]

\* -------------------------------------------------------- Lives for Plants
\* Plants::die
Plants_die(p) == [p EXCEPT !.has_died = TRUE]

\* Plants::modify_health: hp = max(0, min(hp_max, hp + delta)); die at 0.
Plants_modify_health(p, delta) ==
    LET q == [p EXCEPT !.hp = Max(0, Min(p.hp_max, p.hp + delta))]
    IN IF q.hp = 0 THEN Plants_die(q) ELSE q

\* Plants::process_age
Plants_process_age(p) ==
    LET q == [p EXCEPT !.age = p.age + 1]
    IN IF plant_max_age(q.kind) # -1 /\ plant_max_age(q.kind) < q.age
       THEN Plants_die(q) ELSE q

\* Plants::grow_step (process_life_misc)
Plants_grow_step(p) == [p EXCEPT !.growth_level = p.growth_level + 1]

\* Lives::life for a plant: process_health and process_hunger do nothing.
Plants_life(p) == Plants_grow_step(Plants_process_age(p))

\* Plants::ready_to_grow_into
ready_to_grow_into(p) ==
    p.kind \in {"KelpLeaf", "KelpSeed"} /\ p.growth_level >= max_growth(p.kind)

\* Plants::grow_into that creates the next form without an id.
grow_into_untracked(p) ==
    CASE p.kind = "KelpLeaf" -> ConcretePlants_create_new("Kelp", NoId)
      [] p.kind = "KelpSeed" -> ConcretePlants_create_new("KelpLeaf", NoId)
      [] OTHER -> NoEntity

\* Plants::grow_into: the next form with the same id; NoEntity stands for None.
grow_into(p) ==
    CASE p.kind = "KelpLeaf" -> ConcretePlants_create_new("Kelp", Entity_get_id(p))
      [] p.kind = "KelpSeed" -> ConcretePlants_create_new("KelpLeaf", Entity_get_id(p))
      [] OTHER -> NoEntity

\* Plants::late_process that runs the life step and the growth check without
\* looking at the life status first.
Plants_late_process_nodeadcheck(p) ==
    LET q == Plants_life(p)
    IN IF ready_to_grow_into(q) /\ grow_into(q) # NoEntity
       THEN [entity |-> q, hint |-> Hint("ReplaceMeWith", grow_into(q), <<>>)]
       ELSE [entity |-> q, hint |-> NoHint]

\* Plants::late_process
Plants_late_process(p) ==
    IF ~p.has_died
    THEN LET q == Plants_life(p)
         IN IF ready_to_grow_into(q) /\ grow_into(q) # NoEntity
            THEN [entity |-> q, hint |-> Hint("ReplaceMeWith", grow_into(q), <<>>)]
            ELSE [entity |-> q, hint |-> NoHint]
    ELSE [entity |-> p, hint |-> DeleteHint]

\* ------------------------------------------------------------ interactions
\* Eaten::get_retaliation_damage
get_retaliation_damage(e) ==
    CASE e.kind = "Shark" -> 100 [] e.kind = "Crab" -> 50 [] e.kind = "Fish" -> 25
      [] OTHER -> 0

\* EatsCreatures::get_attack: 1 against a plant, per species against an animal.
get_attack(self, target) ==
    IF IsPlant(target) THEN 1
    ELSE CASE self.kind = "Shark" -> 100 [] self.kind = "Crab" -> 50 [] OTHER -> 25

\* EatsCreatures::hunger_restored
hunger_restored(target) ==
    CASE target.kind = "Kelp" -> 100 [] target.kind = "KelpLeaf" -> 25
      [] target.kind = "KelpSeed" -> 10 [] target.kind = "Crab" -> 50
      [] target.kind = "Fish" -> 100 [] OTHER -> 500

\* EatsCreatures::restore_hunger: only hunger_level moves, the bucket is stale
\* until the next process_hunger.
restore_hunger(self, target) ==
    [self EXCEPT !.hunger_level = self.hunger_level + hunger_restored(target)]

\* EatsCreatures<Plants>::can_eat and EatsCreatures<Animals>::can_eat
can_eat(self, target) ==
    IF IsPlant(target)
    THEN /\ ~target.has_died
         /\ self.kind \in {"Crab", "Fish"}
         /\ self.hunger \in {"Hungry", "Starving"}
    ELSE /\ IsAnimal(target)
         /\ ~target.has_died
         /\ self # target
         /\ \/ self.kind = "Shark" /\ target.kind # "Shark"
            \/ self.kind = "Fish" /\ target.kind = "Crab"
            \/ /\ self.kind = "Fish" /\ target.kind = "Fish"
               /\ \/ self.hunger = "Famished"
                  \/ self.hunger = "Starving" /\ self.hp > get_retaliation_damage(target)

\* Eaten::on_eat. results is the Vec<EatResult>: a DealDamage(n) entry is the
\* number n, the Eaten entry is -1.
Plants_on_eat_by_attack(p, attack) ==
    LET q == [p EXCEPT !.hp = p.hp - attack]
    IN [target |-> IF q.hp <= 0 THEN Plants_die(q) ELSE q, results |-> <<-1>>]

Plants_on_eat(p, attack) ==
    LET q == [p EXCEPT !.hp = p.hp - 1]
    IN [target |-> IF q.hp = 0 THEN Plants_die(q) ELSE q, results |-> <<-1>>]

Animals_on_eat(a, attack) ==
    LET b == Animals_modify_health(a, -attack)
    IN [target |-> b,
        results |-> IF b.has_died THEN <<-1>> ELSE <<get_retaliation_damage(b), -1>>]

on_eat(target, attack) ==
    IF IsPlant(target) THEN Plants_on_eat(target, attack) ELSE Animals_on_eat(target, attack)

RECURSIVE ApplyEatResults(_, _, _)
ApplyEatResults(self, target, results) ==
    IF results = <<>> THEN self
    ELSE LET r == Head(results)
             next == IF r >= 0 THEN Animals_modify_health(self, -r)
                     ELSE restore_hunger(self, target)
         IN ApplyEatResults(next, target, Tail(results))

\* EatsCreatures::eat: the attacker and the target afterwards; delete_target is
\* the returned Some(ActionResult::DeleteTarget).
eat(self, target) ==
    LET r == on_eat(target, get_attack(self, target))
    IN [self |-> ApplyEatResults(self, r.target, r.results),
        target |-> r.target,
        delete_target |-> r.target.has_died]

\* Mates::can_mate
can_mate(a) == ~a.pregnant /\ a.ticks_since_last_mating >= mating_cooldown(a.kind)

\* Mates::compatible_mate
compatible_mate(self, target) ==
    /\ can_mate(self) /\ can_mate(target)
    /\ \/ self.kind = target.kind /\ self.kind \in {"Shark", "Fish"} /\ self.sex # target.sex
       \/ self.kind = "Crab" /\ target.kind = "Crab"

\* Mates::on_successful_mate
on_successful_mate(a) ==
    [a EXCEPT !.pregnant = IF a.sex \in {"Female", "Neutral"} THEN TRUE ELSE @,
              !.ticks_since_last_mating = 0]

\* Mates::mate
mate(self, target) ==
    IF ~compatible_mate(self, target) THEN [self |-> self, target |-> target]
    ELSE [self |-> on_successful_mate(self), target |-> on_successful_mate(target)]

\* Ceiling of n / d for n >= 0, d > 0: (x as f64 / d).ceil().
CeilDiv(n, d) == (n + d - 1) \div d

\* slow_mate that stores the quotient whatever the factor.
slow_mate_quotient(a, num, den) ==
    [a EXCEPT !.ticks_since_last_mating = CeilDiv(a.ticks_since_last_mating * den, num)]

\* Animals::slow_mate(factor) with factor = num / den.
slow_mate(a, num, den) ==
    LET less_growth == CeilDiv(a.ticks_since_last_mating * den, num)
    IN IF num < den
       THEN [a EXCEPT !.ticks_since_last_mating = less_growth]
       ELSE [a EXCEPT !.ticks_since_last_mating = a.ticks_since_last_mating - less_growth]

\* Plants::slow_growth
slow_growth(p, factor) ==
    [p EXCEPT !.growth_level = p.growth_level - CeilDiv(p.growth_level, factor)]

\* ------------------------------------------------------------ Reproducing
\* Reproducing::ready_to_reproduce that leaves out Sex::Neutral.
ready_to_reproduce_female_only(e) ==
    IF IsAnimal(e)
    THEN e.sex = "Female" /\ e.pregnancy_level >= MAX_PREGNANCY_LEVEL
    ELSE /\ e.kind = "Kelp"
         /\ e.growth_level % max_growth(e.kind) = 0
         /\ e.growth_level > 0

\* Reproducing::ready_to_reproduce for Animals and for Plants
ready_to_reproduce(e) ==
    IF IsAnimal(e)
    THEN e.sex \in {"Female", "Neutral"} /\ e.pregnancy_level >= MAX_PREGNANCY_LEVEL
    ELSE /\ e.kind = "Kelp"
         /\ e.growth_level % max_growth(e.kind) = 0
         /\ e.growth_level > 0

\* Reproducing::get_offspring_data; percent_chance_per_tile in percent
\* (0.0 -> 0, 0.1 -> 10). Plants other than kelp return None and
\* create_offspring panics; they are never ready to reproduce.
get_offspring_data(e) ==
    IF IsAnimal(e)
    THEN [min_offspring |-> 1, max_offspring |-> 1, percent_chance_per_tile |-> 0]
    ELSE [min_offspring |-> 1, max_offspring |-> 3, percent_chance_per_tile |-> 10]

\* Reproducing::have_child: the worlds after the child is put on the tile. An
\* animal's child draws its sex; only kelp makes a seed.
have_child(self, w, tile) ==
    IF IsAnimal(self)
    THEN {add_entity(w, tile, ConcreteAnimals_create_new(self.kind, NoId, sex)).w :
              sex \in NewAnimalSexes(self.kind)}
    ELSE IF self.kind = "Kelp"
    THEN {add_entity(w, tile, ConcretePlants_create_new("KelpSeed", NoId)).w}
    ELSE {w}

\* Reproducing::on_offspring_created
on_offspring_created(e) ==
    IF IsAnimal(e)
    THEN [e EXCEPT !.pregnant = FALSE, !.pregnancy_level = 0, !.ticks_since_last_mating = 0]
    ELSE e

SeqToSet(s) == {s[i] : i \in DOMAIN s}

\* The "fill necessary children" loop of create_offspring: each round draws a
\* tile of empty_tiles that is neither in positions_spread nor occupied.
RECURSIVE FillNecessary(_, _, _, _, _)
FillNecessary(self, w, necessary_children, empty_tiles, positions_spread) ==
    IF necessary_children = 0
    THEN {[w |-> w, positions_spread |-> positions_spread]}
    ELSE UNION {
           UNION { FillNecessary(self, w2, necessary_children - 1, empty_tiles,
                                 Append(positions_spread, selected)) :
                     w2 \in have_child(self, w, selected) } :
             selected \in {t \in SeqToSet(empty_tiles) :
                             /\ t \notin SeqToSet(positions_spread)
                             /\ ~is_occupied(w.board, t)} }

\* The top-up loop of create_offspring over still_empty_pos: stop once
\* positions_spread.len() > max_offspring, else a child with the given chance.
RECURSIVE TopUp(_, _, _, _, _)
TopUp(self, w, still_empty_pos, positions_spread, offspring_data) ==
    IF still_empty_pos = <<>> \/ Len(positions_spread) > offspring_data.max_offspring
    THEN {[w |-> w, positions_spread |-> positions_spread]}
    ELSE LET pos == Head(still_empty_pos)
             skip == TopUp(self, w, Tail(still_empty_pos), positions_spread, offspring_data)
         IN IF offspring_data.percent_chance_per_tile = 0 THEN skip
            ELSE skip \cup UNION { TopUp(self, w2, Tail(still_empty_pos),
                                         Append(positions_spread, pos), offspring_data) :
                                     w2 \in have_child(self, w, pos) }

\* Reproducing::create_offspring without the two filters for unoccupied
\* tiles: the top-up loop runs over every tile in range not yet used.
create_offspring_unfiltered(self, w, pos) ==
    LET offspring_data == get_offspring_data(self)
        empty_tiles == range(1, FALSE, pos)
        necessary_children == Min(offspring_data.min_offspring, Len(empty_tiles))
    IN UNION {
         { [self |-> on_offspring_created(self), w |-> r2.w,
            positions_spread |-> r2.positions_spread] :
             r2 \in TopUp(self, r1.w,
                          SelectSeq(empty_tiles,
                                    LAMBDA p : p \notin SeqToSet(r1.positions_spread)),
                          r1.positions_spread, offspring_data) } :
           r1 \in FillNecessary(self, w, necessary_children, empty_tiles, <<>>) }

\* Reproducing::create_offspring: the possible (self, world, positions_spread).
create_offspring(self, w, pos) ==
    LET offspring_data == get_offspring_data(self)
        empty_tiles == SelectSeq(range(1, FALSE, pos), LAMBDA p : ~is_occupied(w.board, p))
        necessary_children == Min(offspring_data.min_offspring, Len(empty_tiles))
    IN IF empty_tiles = <<>>
       THEN {[self |-> self, w |-> w, positions_spread |-> <<>>]}
       ELSE UNION {
              { [self |-> on_offspring_created(self), w |-> r2.w,
                 positions_spread |-> r2.positions_spread] :
                  r2 \in TopUp(self, r1.w,
                               SelectSeq(empty_tiles, LAMBDA p : ~is_occupied(r1.w.board, p)),
                               r1.positions_spread, offspring_data) } :
                r1 \in FillNecessary(self, w, necessary_children, empty_tiles, <<>>) }

\* ----------------------------------------------------------- AI behaviours
\* Animals::should_consider_eating and Animals::starving
should_consider_eating(a) == a.hunger \in {"Hungry", "Starving"}
starving(a) == a.hunger = "Starving"

\* AIAction::priority
priority(b) ==
    CASE b.tag = "Eating" -> (IF b.very_hungry THEN 2 ELSE 1)
      [] b.tag = "Mating" -> 1
      [] OTHER -> 0

\* AIAction::completed
completed(b) ==
    CASE b.tag = "Eating" -> b.should_keep_chasing
      [] b.tag = "Mating" -> b.done
      [] OTHER -> FALSE

\* EatAction::is_valid_target and MateAction::is_valid_target
EatAction_is_valid_target(actor, target) == can_eat(actor, target)
MateAction_is_valid_target(actor, target) ==
    IsAnimal(target) /\ compatible_mate(actor, target) /\ target # actor

\* AIAction::is_valid_target of the behaviour with the given tag.
is_valid_target(tag, actor, target) ==
    CASE tag = "Eating" -> EatAction_is_valid_target(actor, target)
      [] tag = "Mating" -> MateAction_is_valid_target(actor, target)
      [] OTHER -> TRUE

\* AIAction::any_available_matches with specific_pos_matches, called with the
\* behaviour's own is_valid_target: some registered position other than
\* ctx.position holds an entity the check accepts.
any_available_matches(tag, actor, w, ctx_position) ==
    \E position \in get_active_positions(w.em) :
        /\ position # ctx_position
        /\ is_occupied(w.board, position)
        /\ is_valid_target(tag, actor, w.board[position])

\* AIAction::is_valid of the three behaviours
is_valid(b, actor, w, ctx_position) ==
    CASE b.tag = "Eating" ->
           /\ should_consider_eating(actor)
           /\ any_available_matches("Eating", actor, w, ctx_position)
      [] b.tag = "Mating" ->
           /\ can_mate(actor)
           /\ ~b.done
           /\ any_available_matches("Mating", actor, w, ctx_position)
      [] OTHER -> TRUE

\* Pos::dist_to: the floored Euclidean distance.
dist_to(p, other) ==
    LET sum == (other.x - p.x) * (other.x - p.x) + (other.y - p.y) * (other.y - p.y)
    IN CHOOSE r \in 0..sum : r * r <= sum /\ sum < (r + 1) * (r + 1)

\* The loop of Animals::get_all_possible_actions over the registry entries in
\* the iteration order `order` (a sequence of ids).
RECURSIVE CollectActions(_, _, _, _, _)
CollectActions(self, w, ctx_position, order, concrete_behaviors) ==
    IF order = <<>> \/ Len(concrete_behaviors) > MAXIMUM_ACTIONS_TO_CONSIDER
    THEN concrete_behaviors
    ELSE LET pos == w.em.active_entities[Head(order)]
             considered == is_occupied(w.board, pos) /\ ~IsNonLiving(w.board[pos])
             eat_behavior == EatAction_new(starving(self))
             mate_behavior == MateAction_new
             with_eat ==
                 IF /\ considered
                    /\ should_consider_eating(self)
                    /\ is_valid(eat_behavior, self, w, ctx_position)
                 THEN Append(concrete_behaviors, [pos |-> pos, behavior |-> eat_behavior])
                 ELSE concrete_behaviors
             with_mate ==
                 IF /\ considered
                    /\ can_mate(self)
                    /\ is_valid(mate_behavior, self, w, ctx_position)
                 THEN Append(with_eat, [pos |-> pos, behavior |-> mate_behavior])
                 ELSE with_eat
         IN CollectActions(self, w, ctx_position, Tail(order), with_mate)

\* Animals::get_all_possible_actions
get_all_possible_actions(self, w, ctx_position, order) ==
    CollectActions(self, w, ctx_position, order,
                   << [pos |-> ctx_position, behavior |-> IdleAction_new(TRUE, TRUE)] >>)

\* Option::None of a behaviour or of a (Pos, behaviour) pair.
NoBehavior == [IdleAction_new(FALSE, FALSE) EXCEPT !.tag = "None"]
NoCandidate == [pos |-> NoPos, behavior |-> NoBehavior]

\* Animals::get_best_possible_behavior that keeps the last candidate of least
\* distance.
get_best_possible_behavior_last(all_behaviors, ctx_position) ==
    IF all_behaviors = <<>> THEN NoCandidate
    ELSE LET highest_priority ==
                 CHOOSE m \in {priority(all_behaviors[i].behavior) : i \in DOMAIN all_behaviors} :
                     \A i \in DOMAIN all_behaviors : priority(all_behaviors[i].behavior) <= m
             highest_priority_elements ==
                 SelectSeq(all_behaviors, LAMBDA c : priority(c.behavior) = highest_priority)
             last_min ==
                 CHOOSE i \in DOMAIN highest_priority_elements :
                     /\ \A j \in DOMAIN highest_priority_elements :
                            dist_to(ctx_position, highest_priority_elements[i].pos)
                              <= dist_to(ctx_position, highest_priority_elements[j].pos)
                     /\ \A j \in (i + 1)..Len(highest_priority_elements) :
                            dist_to(ctx_position, highest_priority_elements[j].pos)
                              > dist_to(ctx_position, highest_priority_elements[i].pos)
         IN highest_priority_elements[last_min]

\* Animals::get_best_possible_behavior: the first candidate of least distance
\* among those of the highest priority.
get_best_possible_behavior(all_behaviors, ctx_position) ==
    IF all_behaviors = <<>> THEN NoCandidate
    ELSE LET highest_priority ==
                 CHOOSE m \in {priority(all_behaviors[i].behavior) : i \in DOMAIN all_behaviors} :
                     \A i \in DOMAIN all_behaviors : priority(all_behaviors[i].behavior) <= m
             highest_priority_elements ==
                 SelectSeq(all_behaviors, LAMBDA c : priority(c.behavior) = highest_priority)
             first_min ==
                 CHOOSE i \in DOMAIN highest_priority_elements :
                     /\ \A j \in DOMAIN highest_priority_elements :
                            dist_to(ctx_position, highest_priority_elements[i].pos)
                              <= dist_to(ctx_position, highest_priority_elements[j].pos)
                     /\ \A j \in 1..(i - 1) :
                            dist_to(ctx_position, highest_priority_elements[j].pos)
                              > dist_to(ctx_position, highest_priority_elements[i].pos)
         IN IF Len(highest_priority_elements) = 1 THEN highest_priority_elements[1]
            ELSE highest_priority_elements[first_min]

\* Animals::get_next_action giving way to a winner of equal priority.
get_next_action_on_tie(self, w, ctx_position, order) ==
    LET best_possible_action ==
            get_best_possible_behavior(
                get_all_possible_actions(self, w, ctx_position, order), ctx_position)
        cur_behavior == self.current_behavior
        new_action == best_possible_action.behavior
    IN IF best_possible_action = NoCandidate THEN NoBehavior
       ELSE IF completed(cur_behavior) \/ ~is_valid(cur_behavior, self, w, ctx_position)
       THEN new_action
       ELSE IF priority(cur_behavior) > priority(new_action) THEN NoBehavior
       ELSE new_action

\* Animals::get_next_action: the behaviour to switch to, or NoBehavior.
get_next_action(self, w, ctx_position, order) ==
    LET best_possible_action ==
            get_best_possible_behavior(
                get_all_possible_actions(self, w, ctx_position, order), ctx_position)
        cur_behavior == self.current_behavior
        new_action == best_possible_action.behavior
    IN IF best_possible_action = NoCandidate THEN NoBehavior
       ELSE IF completed(cur_behavior) \/ ~is_valid(cur_behavior, self, w, ctx_position)
       THEN new_action
       ELSE IF priority(cur_behavior) >= priority(new_action) THEN NoBehavior
       ELSE new_action

\* AIControlled::update_behavior
update_behavior(self, w, ctx_position, order) ==
    LET next_bhvr == get_next_action(self, w, ctx_position, order)
    IN IF next_bhvr # NoBehavior THEN [self EXCEPT !.current_behavior = next_bhvr] ELSE self

\* ------------------------------------------------------------ AIAction::tick
\* The scan of IdleAction::tick over board.range(1, false, ctx.position).
RECURSIVE IdleScan(_, _, _, _, _)
IdleScan(actor, board, ps, can_mate_left, should_try_to_eat) ==
    IF ps = <<>> \/ (~can_mate_left /\ ~should_try_to_eat)
    THEN [actor |-> actor, board |-> board]
    ELSE LET p == Head(ps)
             e == board[p]
             do_eat == should_try_to_eat /\ (IsAnimal(e) \/ IsPlant(e)) /\ can_eat(actor, e)
             r1 == IF do_eat THEN eat(actor, e) ELSE [self |-> actor, target |-> e]
             do_mate == can_mate_left /\ IsAnimal(e) /\ compatible_mate(r1.self, r1.target)
             r2 == IF do_mate THEN mate(r1.self, r1.target) ELSE r1
         IN IdleScan(r2.self, [board EXCEPT ![p] = r2.target], Tail(ps),
                     can_mate_left /\ ~do_mate, should_try_to_eat /\ ~do_eat)

\* IdleAction::tick
IdleAction_tick(b, actor, board, ctx_position) ==
    IF (can_mate(actor) /\ b.mate_adjacent) \/ (should_consider_eating(actor) /\ b.feed_adjacent)
    THEN LET r == IdleScan(actor, board, range(1, FALSE, ctx_position),
                           can_mate(actor), should_consider_eating(actor))
         IN [behavior |-> b, actor |-> r.actor, board |-> r.board]
    ELSE [behavior |-> b, actor |-> actor, board |-> board]

\* The scan of MateAction::tick.
RECURSIVE MateScan(_, _, _, _)
MateScan(b, actor, board, ps) ==
    IF ps = <<>> \/ b.done
    THEN [behavior |-> b, actor |-> actor, board |-> board]
    ELSE LET p == Head(ps)
             a == board[p]
         IN IF IsAnimal(a) /\ compatible_mate(actor, a) /\ a # actor
            THEN LET r == mate(actor, a)
                 IN MateScan([b EXCEPT !.done = TRUE], r.self,
                             [board EXCEPT ![p] = r.target], Tail(ps))
            ELSE MateScan(b, actor, board, Tail(ps))

\* MateAction::tick
MateAction_tick(b, actor, board, ctx_position) ==
    IF ~can_mate(actor)
    THEN [behavior |-> [b EXCEPT !.done = TRUE], actor |-> actor, board |-> board]
    ELSE MateScan(b, actor, board, range(1, FALSE, ctx_position))

\* The scan of EatAction::tick.
RECURSIVE EatScan(_, _, _, _)
EatScan(b, actor, board, ps) ==
    IF ps = <<>> \/ ~b.should_keep_chasing
    THEN [behavior |-> b, actor |-> actor, board |-> board]
    ELSE LET p == Head(ps)
             e == board[p]
         IN IF \/ IsAnimal(e) /\ can_eat(actor, e) /\ e # actor
               \/ IsPlant(e) /\ can_eat(actor, e)
            THEN LET r == eat(actor, e)
                 IN EatScan([b EXCEPT !.should_keep_chasing = FALSE], r.self,
                            [board EXCEPT ![p] = r.target], Tail(ps))
            ELSE EatScan(b, actor, board, Tail(ps))

\* EatAction::tick
EatAction_tick(b, actor, board, ctx_position) ==
    IF ~should_consider_eating(actor)
    THEN [behavior |-> [b EXCEPT !.should_keep_chasing = FALSE],
          actor |-> actor, board |-> board]
    ELSE EatScan(b, actor, board, range(1, FALSE, ctx_position))

\* AIConcreteBehaviors::tick
tick(b, actor, board, ctx_position) ==
    CASE b.tag = "Eating" -> EatAction_tick(b, actor, board, ctx_position)
      [] b.tag = "Mating" -> MateAction_tick(b, actor, board, ctx_position)
      [] OTHER -> IdleAction_tick(b, actor, board, ctx_position)

\* ------------------------------------------------------------- Pathfinder
Abs(n) == IF n < 0 THEN -n ELSE n

\* Pathfinder::get_adjacent: x outer, y inner, keeping x != pos.x && y != pos.y.
get_adjacent(pos, x_max, y_max) ==
    LET x_min == Max(pos.x - 1, 0)
        y_min == Max(pos.y - 1, 0)
        x_hi == Min(pos.x + 1, x_max)
        y_hi == Min(pos.y + 1, y_max)
        ht == y_hi - y_min + 1
        wd == x_hi - x_min + 1
        all == [k \in 1..(wd * ht) |-> Pos(x_min + ((k - 1) \div ht), y_min + ((k - 1) % ht))]
    IN SelectSeq(all, LAMBDA p : p.x # pos.x /\ p.y # pos.y)

\* The while loop of find_path_bfs. visited maps a position to its parent
\* (NoPos for the start's None); goals is where check holds.
RECURSIVE BfsLoop(_, _, _, _, _)
BfsLoop(start, board, goals, visited, horizon) ==
    IF horizon = <<>>
    THEN [found_goal |-> FALSE, next_to_visit |-> NoPos, visited |-> visited]
    ELSE LET cur_pos == Head(horizon)
             fresh == SelectSeq(get_adjacent(cur_pos, Cols - 1, Rows - 1),
                                LAMBDA n : n \notin DOMAIN visited)
             visited2 == [p \in (DOMAIN visited) \cup SeqToSet(fresh) |->
                             IF p \in DOMAIN visited THEN visited[p] ELSE cur_pos]
         IN IF cur_pos \in goals /\ start # cur_pos
            THEN [found_goal |-> TRUE, next_to_visit |-> cur_pos, visited |-> visited]
            ELSE IF is_occupied(board, cur_pos) /\ cur_pos # start
            THEN BfsLoop(start, board, goals, visited, Tail(horizon))
            ELSE BfsLoop(start, board, goals, visited2, Tail(horizon) \o fresh)

\* The backtrack of find_path_bfs, already reversed: parents from the start's
\* side down to the goal's parent.
RECURSIVE Backtrack(_, _)
Backtrack(visited, parent) ==
    IF visited[parent] = NoPos THEN <<>>
    ELSE Append(Backtrack(visited, visited[parent]), visited[parent])

\* Pathfinder::find_path_bfs: [found, path]; found FALSE is None.
find_path_bfs(start, board, goals) ==
    LET r == BfsLoop(start, board, goals, (start :> NoPos), <<start>>)
    IN IF ~r.found_goal THEN [found |-> FALSE, path |-> <<>>]
       ELSE [found |-> TRUE, path |-> Backtrack(r.visited, r.next_to_visit)]

\* The for loop of get_next_node without the test of the budget.
RECURSIVE NextNodeScan_unclipped(_, _, _, _, _)
NextNodeScan_unclipped(start, max_x, max_y, res, last_good_pos) ==
    IF res = <<>> THEN last_good_pos
    ELSE LET path_pos == Head(res)
         IN IF path_pos # start
            THEN NextNodeScan_unclipped(start, max_x, max_y, Tail(res), path_pos)
            ELSE last_good_pos

\* The for loop of get_next_node.
RECURSIVE NextNodeScan(_, _, _, _, _)
NextNodeScan(start, max_x, max_y, res, last_good_pos) ==
    IF res = <<>> THEN last_good_pos
    ELSE LET path_pos == Head(res)
         IN IF /\ Abs(path_pos.x - start.x) <= max_x
               /\ Abs(path_pos.y - start.y) <= max_y
               /\ path_pos # start
            THEN NextNodeScan(start, max_x, max_y, Tail(res), path_pos)
            ELSE last_good_pos

\* Pathfinder::get_next_node with method = find_path_bfs; NoPos is None.
get_next_node(start, board, max_x, max_y, goals) ==
    LET res == find_path_bfs(start, board, goals)
    IN IF res.found THEN NextNodeScan(start, max_x, max_y, res.path, NoPos) ELSE NoPos

\* --------------------------------------------------------------- movement
\* One draw of the walk: an offset that would go below zero becomes zero.
WalkStep(p, dx, dy) ==
    Pos(p.x + (IF p.x + dx < 0 THEN 0 ELSE dx), p.y + (IF p.y + dy < 0 THEN 0 ELSE dy))

\* The results the remaining n draws can give from the positions new_pos may
\* hold: the first valid unoccupied position drawn, or NoPos after the last.
RECURSIVE WalkFrom(_, _, _, _)
WalkFrom(kind, board, frontier, n) ==
    IF frontier = {} THEN {}
    ELSE IF n = 0 THEN {NoPos}
    ELSE LET nexts == {WalkStep(p, dx, dy) :
                          p \in frontier,
                          dx \in (-max_x_movespeed(kind))..max_x_movespeed(kind),
                          dy \in (-max_y_movespeed(kind))..max_y_movespeed(kind)}
             hits == {q \in nexts : is_valid_pos(q) /\ ~is_occupied(board, q)}
         IN hits \cup WalkFrom(kind, board, nexts \ hits, n - 1)

\* Animals::random_walk: the set of possible results.
random_walk(self, start, board) == WalkFrom(self.kind, board, {start}, 5)

\* IdleAction::get_movement: None when dead or on the 30% draw, else the walk.
IdleAction_get_movement(actor, ctx_position, board) ==
    IF actor.has_died THEN {NoPos}
    ELSE {NoPos} \cup WalkFrom(actor.kind, board, {ctx_position}, 5)

\* The check closures of MateAction::get_movement and EatAction::get_movement.
MateGoals(actor, board) ==
    {p \in Positions : IsAnimal(board[p]) /\ compatible_mate(actor, board[p]) /\ can_mate(actor)}
EatGoals(actor, board) ==
    {p \in Positions :
        \/ IsAnimal(board[p]) /\ can_eat(actor, board[p]) /\ board[p] # actor
        \/ IsPlant(board[p]) /\ can_eat(actor, board[p])}

\* MateAction::get_movement and EatAction::get_movement
Targeted_get_movement(b, actor, w, ctx_position) ==
    IF ~is_valid(b, actor, w, ctx_position)
    THEN random_walk(actor, ctx_position, w.board)
    ELSE LET ret == get_next_node(ctx_position, w.board,
                                  max_x_movespeed(actor.kind), max_y_movespeed(actor.kind),
                                  IF b.tag = "Mating" THEN MateGoals(actor, w.board)
                                  ELSE EatGoals(actor, w.board))
         IN IF ret = NoPos THEN random_walk(actor, ctx_position, w.board) ELSE {ret}

\* Animals::get_desired_move
get_desired_move(self, w, ctx_position) ==
    IF self.current_behavior.tag = "Idle"
    THEN IdleAction_get_movement(self, ctx_position, w.board)
    ELSE Targeted_get_movement(self.current_behavior, self, w, ctx_position)

\* ----------------------------------------------------- Processing::process
\* Animals::process: the possible (entity, world, hint). order is the
\* iteration order of the registry in get_all_possible_actions.
Animals_process(self, w, ctx_position, order) ==
    IF self.has_died THEN {[entity |-> self, w |-> w, hint |-> NoHint]}
    ELSE IF ready_to_reproduce(self)
    THEN {[entity |-> r.self, w |-> r.w, hint |-> NoHint] :
              r \in create_offspring(self, w, ctx_position)}
    ELSE LET updated == update_behavior(self, w, ctx_position, order)
             t == tick(updated.current_behavior, updated, w.board, ctx_position)
         IN {[entity |-> [t.actor EXCEPT !.current_behavior = t.behavior],
              w |-> [w EXCEPT !.board = t.board], hint |-> NoHint]}

\* Plants::process
Plants_process(self, w, ctx_position) ==
    IF self.kind # "Kelp" THEN {[entity |-> self, w |-> w, hint |-> NoHint]}
    ELSE IF ready_to_reproduce(self)
    THEN {[entity |-> r.self, w |-> r.w,
           hint |-> Hint("MarkTheseAsInteresting", NoEntity, r.positions_spread)] :
              r \in create_offspring(self, w, ctx_position)}
    ELSE {[entity |-> self, w |-> w, hint |-> IF self.has_died THEN DeleteHint ELSE NoHint]}

\* ------------------------------------------------------------ game events
\* game_events::get_rand_event
get_rand_event(rand_num) ==
    CASE rand_num = 0 -> "OilSpill" [] rand_num = 1 -> "InvasiveFish" [] OTHER -> "Party"

\* What GameEvents::process_event can do to one registered entity.
EventEffects(kind, user_decision, e) ==
    CASE kind = "OilSpill" /\ user_decision ->
           IF IsPlant(e) THEN {slow_growth(e, 5)}
           ELSE IF IsAnimal(e) THEN {slow_mate(e, 3, 1)} ELSE {e}
      [] kind = "OilSpill" /\ ~user_decision ->
           IF IsPlant(e) THEN {slow_growth(e, 3)}
           ELSE IF IsAnimal(e) THEN {slow_mate(e, 5, 1)} ELSE {e}
      [] kind = "InvasiveFish" /\ ~user_decision ->
           IF IsPlant(e) THEN {e, Plants_die(e)} ELSE {e}
      [] kind = "InvasiveFish" /\ user_decision ->
           IF IsAnimal(e) THEN {e, Animals_die(e)} ELSE {e}
      [] kind = "Party" /\ ~user_decision ->
           IF IsAnimal(e) THEN {Animals_process_hunger(slow_mate(e, 4, 5))} ELSE {e}
      [] OTHER -> {e}

\* GameEvents::process_event: the worlds it can leave.
process_event(kind, user_decision, w) ==
    LET important == get_active_positions(w.em)
        outcomes == UNION {EventEffects(kind, user_decision, w.board[p]) : p \in important}
    IN { [w EXCEPT !.board = [p \in Positions |-> IF p \in important THEN f[p] ELSE w.board[p]]] :
           f \in {g \in [important -> outcomes] :
                    \A p \in important : g[p] \in EventEffects(kind, user_decision, w.board[p])} }

\* ------------------------------------------------------------------ state
VARIABLES
    board,           \* Sandbox.board: the entity of every tile (NoEntity when empty)
    entity_context,  \* Sandbox.entity_context: the EntityManager
    clock,           \* Sandbox.clock
    last_event,      \* Sandbox.last_event
    pc,              \* where run_game_loop is
    todo,            \* positions of the current phase's snapshot not yet visited
    futures,         \* late processing: (entity, position) pairs not yet run
    results,         \* late processing: (entity, position, hint) not yet applied
    event,           \* the pending GameEvents kind, "None" when there is none
    loop_rx,         \* the decision channel: messages sent and not yet received
    sent,            \* how many messages the display has sent
    tx,              \* the frame channel: event frames the display has not yet received
    event_msg,       \* the display's event_msg holds an event (its window is open)
    event_res,       \* the display's event_res holds the text of a chosen option
    ticks,           \* how many iterations have been started
    phases,          \* history: the phases begun in the current iteration
    received,        \* history: messages received since the pending event fired
    decision,        \* history: the message process_event was last called with
    everDied,        \* history: ids seen with has_died set
    last,            \* tile calls: the last call and what it returned
    calls            \* tile calls: how many were made

vars == <<board, entity_context, clock, last_event, pc, todo, futures, results, event,
          loop_rx, sent, tx, event_msg, event_res, ticks, phases, received, decision,
          everDied, last, calls>>

W == [board |-> board, em |-> entity_context]

\* Entities on the board or held by the late-processing futures and results.
Held(b, f, r) ==
    {b[p] : p \in Positions} \cup {x.ent : x \in f} \cup {x.ent : x \in r}
DeadIds(es) == {e.id : e \in {x \in es : x.kind # "None" /\ x.has_died /\ x.id # NoId}}

\* ---------------------------------------------------------------- scenarios
RECURSIVE Grown(_, _)
\* An entity after n late-processing steps with nothing else happening to it
\* (life never changes the kind; the test has the first half computed first).
Grown(e, n) ==
    IF n = 0 THEN e
    ELSE IF n = 1 THEN (IF IsAnimal(e) THEN Animals_life(e) ELSE Plants_life(e))
    ELSE LET half == Grown(e, n \div 2)
         IN IF half.kind = e.kind THEN Grown(half, n - (n \div 2)) ELSE half

\* Place the entities of a layout in order through Tile::add_entity.
RECURSIVE Place(_, _)
Place(w, placements) ==
    IF placements = <<>> THEN w
    ELSE Place(add_entity(w, Head(placements).pos, Head(placements).entity).w, Tail(placements))

\* A board: the placements, the listed free tiles, decorations everywhere else.
Layout(placements, free) ==
    LET w0 == Place([board |-> Board_new, em |-> EntityManager_new], placements)
        taken == {placements[i].pos : i \in DOMAIN placements} \cup free
    IN [w0 EXCEPT !.board = [p \in Positions |->
                                IF p \in taken THEN w0.board[p]
                                ELSE ConcreteDecorations_create_new("Rock")]]

At(x, y, entity) == [pos |-> Pos(x, y), entity |-> entity]

\* The board populate_board leaves: a fish and a kelp, nothing has run yet.
ScenarioFresh ==
    [w |-> Layout(<< At(0, 0, ConcreteAnimals_create_new("Fish", NoId, "Female")),
                     At(1, 0, ConcretePlants_create_new("Kelp", NoId)) >>,
                  {Pos(0, 1)}),
     clock |-> 0, last_event |-> 0]

\* Tick 17: a shark that has just become hungry next to a fish.
ScenarioHunt ==
    [w |-> Layout(<< At(0, 0, Grown(ConcreteAnimals_create_new("Shark", NoId, "Male"), 17)),
                     At(1, 0, Grown(ConcreteAnimals_create_new("Fish", NoId, "Female"), 17)) >>,
                  {Pos(0, 1)}),
     clock |-> 17, last_event |-> 20]

\* Tick 65: a kelp whose growth level has reached its maximum, about to seed.
ScenarioSeeding ==
    [w |-> Layout(<< At(0, 0, Grown(ConcretePlants_create_new("Kelp", NoId), 65)) >>,
                  {Pos(1, 0), Pos(0, 1)}),
     clock |-> 65, last_event |-> 70]

\* Tick 114: a crab that has never eaten and is chasing food, the kelp, and
\* the seed the kelp dropped at tick 65, one step from growing into a leaf.
ScenarioGraze ==
    [w |-> Layout(<< At(0, 0, [Grown(ConcreteAnimals_create_new("Crab", NoId, "Neutral"), 114)
                                 EXCEPT !.current_behavior = EatAction_new(TRUE)]),
                     At(2, 1, Grown(ConcretePlants_create_new("Kelp", NoId), 114)),
                     At(2, 0, Grown(ConcretePlants_create_new("KelpSeed", NoId), 49)) >>,
                  {Pos(1, 0)}),
     clock |-> 114, last_event |-> 120]

Scenarios == {ScenarioFresh, ScenarioHunt, ScenarioSeeding, ScenarioGraze}

\* ------------------------------------------------------------------- Init
NoMessage == [value |-> FALSE, pending |-> FALSE, none |-> TRUE]
NoCall == [op |-> "none", position |-> NoPos, given |-> NoEntity, ok |-> TRUE,
           err |-> NoEntity, taken |-> NoEntity,
           before |-> [board |-> Board_new, em |-> EntityManager_new]]

\* The sandbox at the top of run_game_loop, in one of the scenarios.
Init ==
    \E sc \in Scenarios :
        /\ board = sc.w.board
        /\ entity_context = sc.w.em
        /\ clock = sc.clock
        /\ last_event = sc.last_event
        /\ pc = "moves"
        /\ todo = get_active_positions(sc.w.em)
        /\ futures = {}
        /\ results = {}
        /\ event = "None"
        /\ loop_rx = <<>>
        /\ sent = 0
        /\ tx = 0
        /\ event_msg = FALSE
        /\ event_res = FALSE
        /\ ticks = 0
        /\ phases = <<"moves">>
        /\ received = 0
        /\ decision = NoMessage
        /\ everDied = DeadIds(Held(sc.w.board, {}, {}))
        /\ last = NoCall
        /\ calls = 0

SetWorld(w) == board' = w.board /\ entity_context' = w.em
Observe == everDied' = everDied \cup DeadIds(Held(board', futures', results'))

\* run_game_loop: the phase that follows each phase, moves and processing run
\* the other way round.
phase_after_swapped(phase) ==
    CASE phase = "moves" -> "late_processing"
      [] phase = "late_processing" -> "processing"
      [] phase = "processing" -> "events"
      [] OTHER -> "moves"

\* run_game_loop: the phase that follows each phase.
phase_after(phase) ==
    CASE phase = "moves" -> "processing"
      [] phase = "processing" -> "late_processing"
      [] phase = "late_processing" -> "events"
      [] OTHER -> "moves"

\* Sandbox::sanity_check: every registered position is occupied (the
\* duplicates test looks at a one-element slice and never fires).
sanity_check(w) == \A pos \in get_active_positions(w.em) : is_occupied(w.board, pos)

\* The end of a phase: sanity_check, then the next phase takes its snapshot
\* of the important entities.
EndPhase ==
    /\ pc' = IF sanity_check(W) THEN phase_after(pc) ELSE "panic"
    /\ todo' = IF phase_after(pc) = "events" THEN {}
               ELSE get_active_positions(entity_context)
    /\ phases' = Append(phases, phase_after(pc))
    /\ UNCHANGED <<board, entity_context, clock, last_event, futures, results, event,
                   loop_rx, sent, tx, event_msg, event_res, ticks, received, decision,
                   last, calls>>
    /\ Observe

\* ------------------------------------------------------------ handle_moves
\* The body of the handle_moves loop when the mover is handed to the target
\* tile as a new entity (without its id) and so is registered again.
handle_moves_step_reissue(w, pos, new_move) ==
    IF new_move = NoPos \/ ~is_valid_pos(new_move) THEN w
    ELSE IF is_occupied(w.board, new_move) THEN w
    ELSE LET our_entity == remove_entity(w, pos)
         IN add_entity(our_entity.w, new_move,
                       [our_entity.entity EXCEPT !.id = NoId]).w

\* The body of the handle_moves loop without the test of the target tile: the
\* mover is taken off its tile and the target's add_entity result is ignored.
handle_moves_step_unchecked(w, pos, new_move) ==
    IF new_move = NoPos \/ ~is_valid_pos(new_move) THEN w
    ELSE LET our_entity == remove_entity(w, pos)
         IN add_entity(our_entity.w, new_move, our_entity.entity).w

\* The body of the handle_moves loop for one position and one desired move.
handle_moves_step(w, pos, new_move) ==
    IF new_move = NoPos \/ ~is_valid_pos(new_move) THEN w
    ELSE IF is_occupied(w.board, new_move) THEN w
    ELSE LET our_entity == remove_entity(w, pos)
         IN add_entity(our_entity.w, new_move, our_entity.entity).w

DesiredMoves(w, pos) ==
    IF IsAnimal(w.board[pos]) THEN get_desired_move(w.board[pos], w, pos) ELSE {NoPos}

\* handle_moves walking the live registry instead of the positions it
\* collected at the start: the tile moved onto is visited too.
HandleMovesStep_live ==
    /\ pc = "moves"
    /\ ticks < MaxTicks
    /\ \E pos \in todo :
         /\ \E new_move \in DesiredMoves(W, pos) : SetWorld(handle_moves_step(W, pos, new_move))
         /\ todo' = (todo \ {pos}) \cup
                       (get_active_positions(entity_context') \ get_active_positions(entity_context))
    /\ UNCHANGED <<clock, last_event, pc, futures, results, event, loop_rx, sent, tx,
                   event_msg, event_res, ticks, phases, received, decision, last, calls>>
    /\ Observe

HandleMovesStep ==
    /\ pc = "moves"
    /\ ticks < MaxTicks
    /\ \E pos \in todo :
         /\ \E new_move \in DesiredMoves(W, pos) : SetWorld(handle_moves_step(W, pos, new_move))
         /\ todo' = todo \ {pos}
    /\ UNCHANGED <<clock, last_event, pc, futures, results, event, loop_rx, sent, tx,
                   event_msg, event_res, ticks, phases, received, decision, last, calls>>
    /\ Observe

SanityAfterMoves == pc = "moves" /\ ticks < MaxTicks /\ todo = {} /\ EndPhase

\* ------------------------------------------------------- handle_processing
\* The sequences that list every element of S once.
Perms(S) ==
    {f \in [1..Cardinality(S) -> S] : \A i, j \in 1..Cardinality(S) : f[i] = f[j] => i = j}

\* process() of the entity popped out of the tile at pos.
ProcessOutcomes(w, pos) ==
    LET popped == remove_entity(w, pos)
        entity == popped.entity
    IN IF IsPlant(entity) THEN Plants_process(entity, popped.w, pos)
       ELSE IF IsAnimal(entity)
       THEN UNION {Animals_process(entity, popped.w, pos, order) :
                      order \in Perms(DOMAIN popped.w.em.active_entities)}
       ELSE {[entity |-> entity, w |-> popped.w, hint |-> NoHint]}

\* What handle_processing does with the hint and the popped entity.
ApplyProcessHint(o, pos) ==
    CASE o.hint.tag = "Delete" -> o.w
      [] o.hint.tag = "ReplaceMeWith" ->
           add_entity(remove_entity(o.w, pos).w, pos, o.hint.entity).w
      [] OTHER -> add_entity(o.w, pos, o.entity).w

HandleProcessingStep ==
    /\ pc = "processing"
    /\ \E pos \in todo :
         /\ todo' = todo \ {pos}
         /\ IF ~is_occupied(board, pos)
            THEN pc' = "panic" /\ UNCHANGED <<board, entity_context>>
            ELSE /\ pc' = pc
                 /\ \E o \in ProcessOutcomes(W, pos) : SetWorld(ApplyProcessHint(o, pos))
    /\ UNCHANGED <<clock, last_event, futures, results, event, loop_rx, sent, tx,
                   event_msg, event_res, ticks, phases, received, decision, last, calls>>
    /\ Observe

SanityAfterProcessing == pc = "processing" /\ todo = {} /\ EndPhase

\* -------------------------------------------------- handle_late_processing
\* The first loop: every important entity leaves its tile for a future.
RECURSIVE RemoveAll(_, _)
RemoveAll(w, ps) ==
    IF ps = {} THEN w
    ELSE LET p == CHOOSE q \in ps : TRUE
         IN RemoveAll(remove_entity(w, p).w, ps \ {p})

LateCollect ==
    /\ pc = "late_processing"
    /\ todo # {}
    /\ futures' = {[ent |-> board[pos], pos |-> pos] : pos \in {q \in todo : is_occupied(board, q)}}
    /\ SetWorld(RemoveAll(W, todo))
    /\ todo' = {}
    /\ UNCHANGED <<clock, last_event, pc, results, event, loop_rx, sent, tx, event_msg,
                   event_res, ticks, phases, received, decision, last, calls>>
    /\ Observe

\* Sandbox::late_process_entity: one future runs; a non-living entity yields
\* None and is dropped.
late_process_entity(ent, position) ==
    IF IsPlant(ent)
    THEN LET r == Plants_late_process(ent)
         IN {[ent |-> r.entity, pos |-> position, hint |-> r.hint]}
    ELSE IF IsAnimal(ent)
    THEN LET r == Animals_late_process(ent)
         IN {[ent |-> r.entity, pos |-> position, hint |-> r.hint]}
    ELSE {}

LateRun ==
    /\ pc = "late_processing"
    /\ todo = {}
    /\ \E f \in futures :
         /\ futures' = futures \ {f}
         /\ results' = results \cup late_process_entity(f.ent, f.pos)
    /\ UNCHANGED <<board, entity_context, clock, last_event, pc, todo, event, loop_rx,
                   sent, tx, event_msg, event_res, ticks, phases, received, decision, last,
                   calls>>
    /\ Observe

\* The body of the results loop that puts an entity back as a new one, under
\* the next id of the registry.
late_apply_renumbered(w, res) ==
    CASE res.hint.tag = "Delete" -> remove_entity(w, res.pos).w
      [] res.hint.tag = "ReplaceMeWith" ->
           add_entity(remove_entity(w, res.pos).w, res.pos, res.hint.entity).w
      [] OTHER -> add_entity(w, res.pos, [res.ent EXCEPT !.id = NoId]).w

\* The body of the results loop for one result.
late_apply(w, res) ==
    CASE res.hint.tag = "Delete" -> remove_entity(w, res.pos).w
      [] res.hint.tag = "ReplaceMeWith" ->
           add_entity(remove_entity(w, res.pos).w, res.pos, res.hint.entity).w
      [] OTHER -> add_entity(w, res.pos, res.ent).w

LateApply ==
    /\ pc = "late_processing"
    /\ todo = {}
    /\ futures = {}
    /\ \E res \in results :
         /\ results' = results \ {res}
         /\ SetWorld(late_apply(W, res))
    /\ UNCHANGED <<clock, last_event, pc, todo, futures, event, loop_rx, sent, tx,
                   event_msg, event_res, ticks, phases, received, decision, last, calls>>
    /\ Observe

SanityAfterLate ==
    pc = "late_processing" /\ todo = {} /\ futures = {} /\ results = {} /\ EndPhase

\* ----------------------------------------------------------- handle_events
\* The draws of rng.gen_range(1..=1000) the model tries: far from the
\* threshold, within last_event of it, and above it.
EventChances == {1, 990, 1000}

\* handle_events raising last_event on every tick without an event.
HandleEvents_every_tick ==
    /\ pc = "events"
    /\ \E event_chance \in EventChances, rand_num \in 0..2 :
         LET fires == event_chance + last_event >= 995
         IN /\ last_event' = IF fires THEN 0 ELSE last_event + 10
            /\ event' = IF fires THEN get_rand_event(rand_num) ELSE "None"
            /\ pc' = IF fires THEN "await_decision" ELSE phase_after(pc)
            /\ todo' = IF fires THEN {} ELSE get_active_positions(entity_context)
            /\ phases' = IF fires THEN phases ELSE <<phase_after(pc)>>
            /\ received' = IF fires THEN 0 ELSE received
    /\ clock' = clock + 1
    /\ ticks' = ticks + 1
    /\ tx' = IF event' # "None" THEN tx + 1 ELSE tx
    /\ UNCHANGED <<board, entity_context, futures, results, loop_rx, sent, event_msg,
                   event_res, decision, last, calls>>
    /\ Observe

\* Sandbox::handle_events followed by the rest of the iteration of
\* run_game_loop: clock += 1, the frame is sent, and the loop either goes on
\* or starts waiting for the display.
HandleEvents ==
    /\ pc = "events"
    /\ \E event_chance \in EventChances, rand_num \in 0..2 :
         LET fires == event_chance + last_event >= 995
         IN /\ last_event' = IF fires THEN 0
                             ELSE IF clock % 10 = 0 THEN last_event + 10 ELSE last_event
            /\ event' = IF fires THEN get_rand_event(rand_num) ELSE "None"
            /\ pc' = IF fires THEN "await_decision" ELSE phase_after(pc)
            /\ todo' = IF fires THEN {} ELSE get_active_positions(entity_context)
            /\ phases' = IF fires THEN phases ELSE <<phase_after(pc)>>
            /\ received' = IF fires THEN 0 ELSE received
    /\ clock' = clock + 1
    /\ ticks' = ticks + 1
    /\ tx' = IF event' # "None" THEN tx + 1 ELSE tx
    /\ UNCHANGED <<board, entity_context, futures, results, loop_rx, sent, event_msg,
                   event_res, decision, last, calls>>
    /\ Observe

\* The outer wait with a decision that defaults to false when the channel is
\* empty.
RecvDecision_nowait ==
    /\ pc = "await_decision"
    /\ LET user_inp == IF loop_rx # <<>> THEN Head(loop_rx)
                       ELSE [value |-> FALSE, pending |-> TRUE, none |-> FALSE]
       IN /\ \E w \in process_event(event, user_inp.value, W) : SetWorld(w)
          /\ decision' = user_inp
    /\ loop_rx' = IF loop_rx # <<>> THEN Tail(loop_rx) ELSE loop_rx
    /\ received' = received + 1
    /\ pc' = "await_proceed"
    /\ UNCHANGED <<clock, last_event, todo, futures, results, event, sent, tx, event_msg,
                   event_res, ticks, phases, last, calls>>
    /\ Observe

\* The outer wait without the inner one: the decision also ends the pause.
RecvDecision_resume ==
    /\ pc = "await_decision"
    /\ loop_rx # <<>>
    /\ \E w \in process_event(event, Head(loop_rx).value, W) :
         SetWorld(w) /\ todo' = get_active_positions(w.em)
    /\ decision' = Head(loop_rx)
    /\ loop_rx' = Tail(loop_rx)
    /\ received' = received + 1
    /\ event' = "None"
    /\ pc' = "moves"
    /\ phases' = <<"moves">>
    /\ UNCHANGED <<clock, last_event, futures, results, sent, tx, event_msg, event_res,
                   ticks, last, calls>>
    /\ Observe

\* The outer wait of run_game_loop: the first message on loop_rx is the
\* decision process_event is called with.
RecvDecision ==
    /\ pc = "await_decision"
    /\ loop_rx # <<>>
    /\ \E w \in process_event(event, Head(loop_rx).value, W) : SetWorld(w)
    /\ decision' = Head(loop_rx)
    /\ loop_rx' = Tail(loop_rx)
    /\ received' = received + 1
    /\ pc' = "await_proceed"
    /\ UNCHANGED <<clock, last_event, todo, futures, results, event, sent, tx, event_msg,
                   event_res, ticks, phases, last, calls>>
    /\ Observe

\* The inner wait taking its message as a decision too.
RecvProceed_again ==
    /\ pc = "await_proceed"
    /\ loop_rx # <<>>
    /\ \E w \in process_event(event, Head(loop_rx).value, W) : SetWorld(w)
    /\ loop_rx' = Tail(loop_rx)
    /\ received' = received + 1
    /\ event' = "None"
    /\ pc' = "moves"
    /\ todo' = get_active_positions(entity_context')
    /\ phases' = <<"moves">>
    /\ UNCHANGED <<clock, last_event, futures, results, sent, tx,
                   event_msg, event_res, ticks, decision, last, calls>>
    /\ Observe

\* The inner wait: the next message, whatever it says, ends the pause.
RecvProceed ==
    /\ pc = "await_proceed"
    /\ loop_rx # <<>>
    /\ loop_rx' = Tail(loop_rx)
    /\ received' = received + 1
    /\ event' = "None"
    /\ pc' = "moves"
    /\ todo' = get_active_positions(entity_context)
    /\ phases' = <<"moves">>
    /\ UNCHANGED <<board, entity_context, clock, last_event, futures, results, sent, tx,
                   event_msg, event_res, ticks, decision, last, calls>>
    /\ Observe

\* MyApp::update, no event shown: the display takes the next frame from rx.
\* A frame without an event leaves event_msg with fewer than three parts, and
\* the next update reads on; a frame with an event opens the event window.
DisplayRecv ==
    /\ pc # "tile"
    /\ ~event_msg
    /\ tx > 0
    /\ tx' = tx - 1
    /\ event_msg' = TRUE
    /\ UNCHANGED <<board, entity_context, clock, last_event, pc, todo, futures, results,
                   event, loop_rx, sent, event_res, ticks, phases, received, decision,
                   last, calls>>
    /\ Observe

\* MyApp::update, buttons "1" and "2" of the event window: each click records
\* the option's text and sends false or true on loop_tx. pending records
\* whether the loop had an event pending when the message was sent.
DisplayChoose ==
    /\ pc # "tile"
    /\ event_msg
    /\ sent < MaxSent
    /\ \E b \in BOOLEAN :
         loop_rx' = Append(loop_rx, [value |-> b, pending |-> event # "None", none |-> FALSE])
    /\ sent' = sent + 1
    /\ event_res' = TRUE
    /\ UNCHANGED <<board, entity_context, clock, last_event, pc, todo, futures, results,
                   event, tx, event_msg, ticks, phases, received, decision, last, calls>>
    /\ Observe

\* MyApp::update, button "Proceed", shown once an option was chosen: it
\* closes the event window and sends true on loop_tx.
DisplayProceed ==
    /\ pc # "tile"
    /\ event_msg
    /\ event_res
    /\ sent < MaxSent
    /\ loop_rx' = Append(loop_rx, [value |-> TRUE, pending |-> event # "None", none |-> FALSE])
    /\ sent' = sent + 1
    /\ event_msg' = FALSE
    /\ event_res' = FALSE
    /\ UNCHANGED <<board, entity_context, clock, last_event, pc, todo, futures, results,
                   event, tx, ticks, phases, received, decision, last, calls>>
    /\ Observe

Next ==
    \/ HandleMovesStep
    \/ SanityAfterMoves
    \/ HandleProcessingStep
    \/ SanityAfterProcessing
    \/ LateCollect
    \/ LateRun
    \/ LateApply
    \/ SanityAfterLate
    \/ HandleEvents
    \/ RecvDecision
    \/ RecvProceed
    \/ DisplayRecv
    \/ DisplayChoose
    \/ DisplayProceed

Spec == Init /\ [][Next]_vars

\* The same loop under the scheduling the code has: the loop thread always
\* runs, and the display's messages are received once they are in the channel.
FairSpec ==
    Spec /\ WF_vars(HandleMovesStep \/ SanityAfterMoves \/ HandleProcessingStep
                    \/ SanityAfterProcessing \/ LateCollect \/ LateRun \/ LateApply
                    \/ SanityAfterLate \/ HandleEvents \/ RecvDecision \/ RecvProceed)

\* Tick 199: two crabs side by side that have eaten three times and will be
\* ready to mate once this tick's late-process phase has run; the last event
\* was fired at tick 150.
ScenarioInvasion ==
    LET kelp == ConcretePlants_create_new("Kelp", NoId)
        crab == ConcreteAnimals_create_new("Crab", NoId, "Neutral")
        fed1 == restore_hunger(Grown(crab, 60), kelp)
        fed2 == restore_hunger(Grown(fed1, 60), kelp)
        fed3 == restore_hunger(Grown(fed2, 60), kelp)
    IN [w |-> Layout(<< At(1, 2, Grown(fed3, 19)), At(1, 1, Grown(fed3, 19)) >>, {}),
        clock |-> 199, last_event |-> 40]

\* The sandbox at the top of run_game_loop at tick 199.
InvasionInit ==
    \E sc \in {ScenarioInvasion} :
        /\ board = sc.w.board
        /\ entity_context = sc.w.em
        /\ clock = sc.clock
        /\ last_event = sc.last_event
        /\ pc = "moves"
        /\ todo = get_active_positions(sc.w.em)
        /\ futures = {}
        /\ results = {}
        /\ event = "None"
        /\ loop_rx = <<>>
        /\ sent = 0
        /\ tx = 0
        /\ event_msg = FALSE
        /\ event_res = FALSE
        /\ ticks = 0
        /\ phases = <<"moves">>
        /\ received = 0
        /\ decision = NoMessage
        /\ everDied = DeadIds(Held(sc.w.board, {}, {}))
        /\ last = NoCall
        /\ calls = 0

InvasionSpec == InvasionInit /\ [][Next]_vars

\* ------------------------------------------------------------- tile calls
\* A client of the Tile interface, as the unit tests are: it adds entities
\* to tiles and removes them, on a fresh board with a fresh registry.
TilePositions == {Pos(0, 0), Pos(1, 0)}

TileInit ==
    /\ board = Board_new
    /\ entity_context = EntityManager_new
    /\ clock = 0
    /\ last_event = 0
    /\ pc = "tile"
    /\ todo = {}
    /\ futures = {}
    /\ results = {}
    /\ event = "None"
    /\ loop_rx = <<>>
    /\ sent = 0
    /\ tx = 0
    /\ event_msg = FALSE
    /\ event_res = FALSE
    /\ ticks = 0
    /\ phases = <<>>
    /\ received = 0
    /\ decision = NoMessage
    /\ everDied = {}
    /\ last = NoCall
    /\ calls = 0

\* The entities a client can hand to add_entity: new ones, or the one the
\* last remove_entity returned (which keeps its id).
Offered ==
    {ConcreteAnimals_create_new("Fish", NoId, "Female"),
     ConcretePlants_create_new("Kelp", NoId),
     ConcreteDecorations_create_new("Rock")}
      \cup (IF last.op = "remove" /\ last.taken # NoEntity THEN {last.taken} ELSE {})

TileAdd ==
    /\ pc = "tile"
    /\ calls < MaxCalls
    /\ \E position \in TilePositions, entity \in Offered :
         LET r == add_entity(W, position, entity)
         IN /\ SetWorld(r.w)
            /\ last' = [op |-> "add", position |-> position, given |-> entity, ok |-> r.ok,
                        err |-> r.err, taken |-> NoEntity, before |-> W]
    /\ calls' = calls + 1
    /\ UNCHANGED <<clock, last_event, pc, todo, futures, results, event, loop_rx, sent, tx,
                   event_msg, event_res, ticks, phases, received, decision>>
    /\ Observe

TileRemove ==
    /\ pc = "tile"
    /\ calls < MaxCalls
    /\ \E position \in TilePositions :
         LET r == remove_entity(W, position)
         IN /\ SetWorld(r.w)
            /\ last' = [op |-> "remove", position |-> position, given |-> NoEntity,
                        ok |-> TRUE, err |-> NoEntity, taken |-> r.entity, before |-> W]
    /\ calls' = calls + 1
    /\ UNCHANGED <<clock, last_event, pc, todo, futures, results, event, loop_rx, sent, tx,
                   event_msg, event_res, ticks, phases, received, decision>>
    /\ Observe

TileNext == TileAdd \/ TileRemove

TileSpec == TileInit /\ [][TileNext]_vars

\* ------------------------------------------------------------- unit calls
\* A client of single operations, as the unit tests of animals.rs and
\* ai_controller.rs are: it calls one operation on entities the simulation
\* produces and keeps the arguments and the outcome in last.
UnitAges == {0, 17, 30, 50, 63}

\* Animals as the simulation has them: created by the factory, registered,
\* and aged by the per-tick life processing without having eaten.
UnitAnimals(id) ==
    UNION {{Grown(Entity_register(ConcreteAnimals_create_new(kind, NoId, sex), id), n) :
               sex \in NewAnimalSexes(kind), n \in UnitAges} : kind \in AnimalKinds}

\* Plants as the simulation has them: fresh, grown, and a kelp bitten once.
UnitPlants(id) ==
    LET kelp == Entity_register(ConcretePlants_create_new("Kelp", NoId), id)
    IN {kelp, Grown(kelp, 17), Plants_on_eat(kelp, 1).target,
        Entity_register(ConcretePlants_create_new("KelpLeaf", NoId), id),
        Entity_register(ConcretePlants_create_new("KelpSeed", NoId), id)}

UnitInit ==
    /\ board = Board_new
    /\ entity_context = EntityManager_new
    /\ clock = 0
    /\ last_event = 0
    /\ pc = "unit"
    /\ todo = {}
    /\ futures = {}
    /\ results = {}
    /\ event = "None"
    /\ loop_rx = <<>>
    /\ sent = 0
    /\ tx = 0
    /\ event_msg = FALSE
    /\ event_res = FALSE
    /\ ticks = 0
    /\ phases = <<>>
    /\ received = 0
    /\ decision = NoMessage
    /\ everDied = {}
    /\ last = NoCall
    /\ calls = 0

\* EatAction::tick and IdleAction::tick call actor.eat(target) on a target
\* other than the actor for which actor.can_eat(target) holds.
CallEat ==
    /\ pc = "unit"
    /\ last.op = "none"
    /\ \E self \in UnitAnimals(1), target \in UnitAnimals(2) \cup UnitPlants(2) :
         /\ can_eat(self, target)
         /\ last' = [op |-> "eat", self |-> self, target |-> target, attack |-> 0,
                     out |-> eat(self, target)]
    /\ UNCHANGED <<board, entity_context, clock, last_event, pc, todo, futures, results,
                   event, loop_rx, sent, tx, event_msg, event_res, ticks, phases, received,
                   decision, everDied, calls>>

\* Eaten::on_eat called on a live plant with any attack value.
UnitAttacks == {1, 25, 50, 100}

CallOnEat ==
    /\ pc = "unit"
    /\ last.op = "none"
    /\ \E target \in UnitPlants(2), attack \in UnitAttacks :
         /\ ~target.has_died
         /\ last' = [op |-> "on_eat", self |-> NoEntity, target |-> target,
                     attack |-> attack, out |-> on_eat(target, attack)]
    /\ UNCHANGED <<board, entity_context, clock, last_event, pc, todo, futures, results,
                   event, loop_rx, sent, tx, event_msg, event_res, ticks, phases, received,
                   decision, everDied, calls>>

\* The boards the calls below are made on, and the moves an implementation
\* of AIControlled::get_desired_move may return: any position with usize
\* coordinates, in or out of bounds, free or occupied, or None.
UnitWorlds == {sc.w : sc \in Scenarios}
UnitMoves == {Pos(x, y) : x \in 0..Cols, y \in 0..Rows} \cup {NoPos}

\* One iteration of the loop of Sandbox::handle_moves.
CallHandleMoves ==
    /\ pc = "unit"
    /\ last.op = "none"
    /\ \E w \in UnitWorlds :
         \E pos \in get_active_positions(w.em), new_move \in UnitMoves :
            last' = [op |-> "handle_moves", before |-> w, pos |-> pos,
                     new_move |-> new_move, out |-> handle_moves_step(w, pos, new_move)]
    /\ UNCHANGED <<board, entity_context, clock, last_event, pc, todo, futures, results,
                   event, loop_rx, sent, tx, event_msg, event_res, ticks, phases, received,
                   decision, everDied, calls>>

\* A fish that ate kelp at ticks 40 and 80, mated at tick 100 and has carried
\* for 20 ticks.
UnitPregnantFish ==
    LET kelp == ConcretePlants_create_new("Kelp", NoId)
        fish == ConcreteAnimals_create_new("Fish", NoId, "Female")
        fed == Grown(restore_hunger(Grown(restore_hunger(Grown(fish, 40), kelp), 40), kelp), 20)
    IN Grown(on_successful_mate(fed), 20)

\* Boards with a parent about to reproduce: a kelp at tick 65 in the middle
\* of open water, the same kelp walled in, and the pregnant fish with two free
\* tiles around it.
UnitNurseries ==
    {Layout(<< At(1, 1, Grown(ConcretePlants_create_new("Kelp", NoId), 65)) >>, Positions),
     Layout(<< At(0, 0, Grown(ConcretePlants_create_new("Kelp", NoId), 65)) >>, {}),
     Layout(<< At(1, 1, UnitPregnantFish),
               At(0, 0, ConcretePlants_create_new("Kelp", NoId)) >>,
            {Pos(1, 0), Pos(0, 1)}),
     ScenarioSeeding.w}

\* Plants::process and Animals::process call create_offspring on a parent that
\* is ready_to_reproduce, after handle_processing took it off its tile.
CallCreateOffspring ==
    /\ pc = "unit"
    /\ last.op = "none"
    /\ \E w \in UnitNurseries :
         \E pos \in get_active_positions(w.em) :
            LET popped == remove_entity(w, pos)
            IN /\ ready_to_reproduce(popped.entity)
               /\ \E r \in create_offspring(popped.entity, popped.w, pos) :
                    last' = [op |-> "create_offspring", before |-> popped.w, pos |-> pos,
                             self |-> popped.entity, out |-> r]
    /\ UNCHANGED <<board, entity_context, clock, last_event, pc, todo, futures, results,
                   event, loop_rx, sent, tx, event_msg, event_res, ticks, phases, received,
                   decision, everDied, calls>>

\* A crab that ate kelp at ticks 60, 120 and 180 and is 200 ticks old: full,
\* and past its mating cooldown.
UnitMateReadyCrab ==
    LET kelp == ConcretePlants_create_new("Kelp", NoId)
        crab == ConcreteAnimals_create_new("Crab", NoId, "Neutral")
        fed1 == restore_hunger(Grown(crab, 60), kelp)
        fed2 == restore_hunger(Grown(fed1, 60), kelp)
        fed3 == restore_hunger(Grown(fed2, 60), kelp)
    IN Grown(fed3, 20)

\* Boards for the behaviour calls, on open water: a hungry crab and a kelp
\* (the board of test_behaviors), two crabs ready to mate (the board of
\* verify_mating), a starving crab with a kelp and a full crab, a full crab
\* alone, a shark famished after 50 ticks without food next to a fish.
UnitHabitats ==
    {Layout(<< At(1, 1, Grown(ConcreteAnimals_create_new("Crab", NoId, "Neutral"), 50)),
               At(2, 2, ConcretePlants_create_new("Kelp", NoId)) >>, Positions),
     Layout(<< At(1, 2, UnitMateReadyCrab), At(1, 1, UnitMateReadyCrab) >>, Positions),
     Layout(<< At(0, 0, Grown(ConcreteAnimals_create_new("Crab", NoId, "Neutral"), 114)),
               At(2, 2, Grown(ConcretePlants_create_new("Kelp", NoId), 114)),
               At(0, 2, Grown(ConcreteAnimals_create_new("Crab", NoId, "Neutral"), 17)) >>,
            Positions),
     Layout(<< At(1, 1, Grown(ConcreteAnimals_create_new("Crab", NoId, "Neutral"), 17)) >>,
            Positions),
     Layout(<< At(1, 1, Grown(ConcreteAnimals_create_new("Shark", NoId, "Male"), 50)),
               At(2, 2, ConcreteAnimals_create_new("Fish", NoId, "Female")) >>, Positions)}
       \cup UnitWorlds

\* The behaviours an animal in the state of self can be holding: the ones
\* get_all_possible_actions creates, as tick leaves them. An EatAction still
\* chasing was given to an animal that was hungry and has not eaten since; a
\* MateAction was given to an animal past its mating cooldown.
UnitBehaviors(self) ==
    {IdleAction_new(TRUE, TRUE)}
      \cup {[EatAction_new(vh) EXCEPT !.should_keep_chasing = FALSE] : vh \in BOOLEAN}
      \cup (IF self.hunger # "Full" THEN {EatAction_new(FALSE)} ELSE {})
      \cup (IF self.hunger \in {"Starving", "Famished"} THEN {EatAction_new(TRUE)} ELSE {})
      \cup (IF self.age >= mating_cooldown(self.kind)
            THEN {MateAction_new, [MateAction_new EXCEPT !.done = TRUE]} ELSE {})

\* Animals::get_all_possible_actions, called as Animals::process calls it
\* (the actor taken off its tile by handle_processing) and as the tests of
\* animals.rs call it (the actor standing on its tile), under every iteration
\* order of the registry.
CallGetAllPossibleActions ==
    /\ pc = "unit"
    /\ last.op = "none"
    /\ \E w \in UnitHabitats, on_tile \in BOOLEAN :
         \E pos \in get_active_positions(w.em) :
            LET popped == remove_entity(w, pos)
                used == IF on_tile THEN w ELSE popped.w
            IN /\ IsAnimal(popped.entity)
               /\ \E order \in Perms(DOMAIN used.em.active_entities) :
                    last' = [op |-> "get_all_possible_actions", before |-> used, pos |-> pos,
                             self |-> popped.entity, on_tile |-> on_tile,
                             out |-> get_all_possible_actions(popped.entity, used, pos, order)]
    /\ UNCHANGED <<board, entity_context, clock, last_event, pc, todo, futures, results,
                   event, loop_rx, sent, tx, event_msg, event_res, ticks, phases, received,
                   decision, everDied, calls>>

\* Animals::get_next_action and AIControlled::update_behavior, as
\* Animals::process calls them.
CallGetNextAction ==
    /\ pc = "unit"
    /\ last.op = "none"
    /\ \E w \in UnitHabitats :
         \E pos \in get_active_positions(w.em) :
            LET popped == remove_entity(w, pos)
            IN /\ IsAnimal(popped.entity)
               /\ \E cur \in UnitBehaviors(popped.entity),
                     order \in Perms(DOMAIN popped.w.em.active_entities) :
                    LET self == [popped.entity EXCEPT !.current_behavior = cur]
                    IN last' = [op |-> "get_next_action", before |-> popped.w, pos |-> pos,
                                self |-> self,
                                best |-> get_best_possible_behavior(
                                             get_all_possible_actions(self, popped.w, pos, order),
                                             pos),
                                out |-> get_next_action(self, popped.w, pos, order),
                                after |-> update_behavior(self, popped.w, pos, order)]
    /\ UNCHANGED <<board, entity_context, clock, last_event, pc, todo, futures, results,
                   event, loop_rx, sent, tx, event_msg, event_res, ticks, phases, received,
                   decision, everDied, calls>>

\* Animals::random_walk and IdleAction::get_movement, as handle_moves reaches
\* them through get_desired_move: the actor stands on its tile.
CallGetMovement ==
    /\ pc = "unit"
    /\ last.op = "none"
    /\ \E w \in UnitHabitats :
         \E start \in get_active_positions(w.em) :
            /\ IsAnimal(w.board[start])
            /\ last' = [op |-> "get_movement", start |-> start, self |-> w.board[start],
                        board |-> w.board,
                        walk |-> random_walk(w.board[start], start, w.board),
                        idle |-> IdleAction_get_movement(w.board[start], start, w.board)]
    /\ UNCHANGED <<board, entity_context, clock, last_event, pc, todo, futures, results,
                   event, loop_rx, sent, tx, event_msg, event_res, ticks, phases, received,
                   decision, everDied, calls>>

\* Animals::get_best_possible_behavior called with every list of up to
\* MaxCandidates candidates: Idle, Eating (hungry or starving) or Mating, at
\* tiles 0, 1 and 2 away from the actor, two of them equally far.
MaxCandidates == 3
CandidatePositions == {Pos(0, 0), Pos(1, 0), Pos(2, 0), Pos(2, 2)}
CandidateBehaviors ==
    {IdleAction_new(TRUE, TRUE), EatAction_new(FALSE), EatAction_new(TRUE), MateAction_new}
Candidates == {[pos |-> p, behavior |-> b] : p \in CandidatePositions, b \in CandidateBehaviors}

CallGetBestPossibleBehavior ==
    /\ pc = "unit"
    /\ last.op = "none"
    /\ \E n \in 0..MaxCandidates :
         \E all_behaviors \in [1..n -> Candidates] :
            last' = [op |-> "get_best_possible_behavior", all |-> all_behaviors,
                     pos |-> Pos(0, 0),
                     out |-> get_best_possible_behavior(all_behaviors, Pos(0, 0))]
    /\ UNCHANGED <<board, entity_context, clock, last_event, pc, todo, futures, results,
                   event, loop_rx, sent, tx, event_msg, event_res, ticks, phases, received,
                   decision, everDied, calls>>

\* EatAction::new followed by EatAction::tick, as process runs it on an
\* animal taken off its tile, with completed() asked before and after.
CallEatTick ==
    /\ pc = "unit"
    /\ last.op = "none"
    /\ \E w \in UnitHabitats :
         \E pos \in get_active_positions(w.em) :
            LET popped == remove_entity(w, pos)
                new == EatAction_new(starving(popped.entity))
                out == EatAction_tick(new, popped.entity, popped.w.board, pos)
            IN /\ IsAnimal(popped.entity)
               /\ last' = [op |-> "eat_tick", before |-> popped.w, pos |-> pos,
                           self |-> popped.entity, new |-> new, out |-> out,
                           completed_new |-> completed(new),
                           completed_out |-> completed(out.behavior)]
    /\ UNCHANGED <<board, entity_context, clock, last_event, pc, todo, futures, results,
                   event, loop_rx, sent, tx, event_msg, event_res, ticks, phases, received,
                   decision, everDied, calls>>

\* The paths a pathfinding method handed to get_next_node may return: up to
\* two positions of the board.
UnitPaths == {<<>>} \cup {<<p>> : p \in Positions} \cup {<<p, q>> : p, q \in Positions}

\* Pathfinder::get_next_node: with method = find_path_bfs, as
\* EatAction::get_movement and MateAction::get_movement call it from
\* handle_moves (the actor on its tile), together with what get_movement
\* then returns, and with a method returning any path.
CallGetNextNode ==
    /\ pc = "unit"
    /\ last.op = "none"
    /\ \/ \E w \in UnitHabitats, tag \in {"Eating", "Mating"} :
            \E start \in get_active_positions(w.em) :
               LET actor == w.board[start]
                   goals == IF tag = "Mating" THEN MateGoals(actor, w.board)
                            ELSE EatGoals(actor, w.board)
                   res == find_path_bfs(start, w.board, goals)
                   behavior == IF tag = "Mating" THEN MateAction_new
                               ELSE EatAction_new(starving(actor))
               IN /\ IsAnimal(actor)
                  /\ last' = [op |-> "get_next_node", start |-> start, bfs |-> TRUE,
                              board |-> w.board, goals |-> goals \ {start},
                              max_x |-> max_x_movespeed(actor.kind),
                              max_y |-> max_y_movespeed(actor.kind),
                              found |-> res.found, path |-> res.path,
                              goal |-> IF res.found
                                       THEN BfsLoop(start, w.board, goals, (start :> NoPos),
                                                    <<start>>).next_to_visit
                                       ELSE NoPos,
                              valid |-> is_valid(behavior, actor, w, start),
                              moves |-> Targeted_get_movement(behavior, actor, w, start),
                              walk |-> random_walk(actor, start, w.board),
                              out |-> get_next_node(start, w.board,
                                                    max_x_movespeed(actor.kind),
                                                    max_y_movespeed(actor.kind), goals)]
       \/ \E start \in Positions, kind \in AnimalKinds, path \in UnitPaths :
            last' = [op |-> "get_next_node", start |-> start, bfs |-> FALSE,
                     board |-> Board_new, goals |-> {},
                     max_x |-> max_x_movespeed(kind), max_y |-> max_y_movespeed(kind),
                     found |-> TRUE, path |-> path,
                     goal |-> NoPos, valid |-> FALSE, moves |-> {}, walk |-> {},
                     out |-> NextNodeScan(start, max_x_movespeed(kind), max_y_movespeed(kind),
                                          path, NoPos)]
    /\ UNCHANGED <<board, entity_context, clock, last_event, pc, todo, futures, results,
                   event, loop_rx, sent, tx, event_msg, event_res, ticks, phases, received,
                   decision, everDied, calls>>

\* --------------------------------------------------------- populate_board
MaxSide == 2
MaxOfKind == 2

\* The tiles of a board of the given size and their row-major order.
BoardPositions(rows, cols) == {Pos(x, y) : x \in 0..(cols - 1), y \in 0..(rows - 1)}
RowMajor(rows, cols) == [k \in 1..(rows * cols) |-> Pos((k - 1) % cols, (k - 1) \div cols)]
FreeTiles(b) == {p \in DOMAIN b : ~is_occupied(b, p)}
FirstFree(b) ==
    CHOOSE p \in FreeTiles(b) :
        \A q \in FreeTiles(b) : p.y < q.y \/ (p.y = q.y /\ p.x <= q.x)

\* generate_creatures for the three kinds, in the order populate_board places
\* them.
generate_creatures(fish, crab, shark) ==
    [k \in 1..(fish + crab + shark) |->
        IF k <= fish THEN "Fish" ELSE IF k <= fish + crab THEN "Crab" ELSE "Shark"]

\* populate_board, the body of 'creature: up to 10 random tiles, the first
\* free one of which takes the creature and is pushed to important_tiles; when
\* all ten were occupied, the first free tile in row-major order takes it
\* (and is not pushed); with no free tile, the panic.
place_creature(st, kind) ==
    IF st.panicked THEN {st}
    ELSE IF FreeTiles(st.w.board) = {} THEN {[st EXCEPT !.panicked = TRUE]}
    ELSE LET free == FreeTiles(st.w.board)
             put(p, sex) == add_entity(st.w, p, ConcreteAnimals_create_new(kind, NoId, sex)).w
         IN {[st EXCEPT !.w = put(p, sex), !.important_tiles = Append(@, p)] :
                p \in free, sex \in NewAnimalSexes(kind)}
              \cup
            (IF free = DOMAIN st.w.board THEN {}
             ELSE {[st EXCEPT !.w = put(FirstFree(st.w.board), sex)] :
                      sex \in NewAnimalSexes(kind)})

RECURSIVE place_creatures(_, _)
place_creatures(sts, kinds) ==
    IF kinds = <<>> THEN sts
    ELSE place_creatures(UNION {place_creature(st, Head(kinds)) : st \in sts}, Tail(kinds))

\* populate_board, the body of the last loop for one tile: an occupied tile
\* is skipped; a free one gets a rock or a shell, or a kelp (pushed to
\* important_tiles), or stays empty.
decorate_tile(st, p) ==
    IF st.panicked \/ is_occupied(st.w.board, p) THEN {st}
    ELSE {st,
          [st EXCEPT !.w = add_entity(st.w, p, ConcreteDecorations_create_new("Rock")).w],
          [st EXCEPT !.w = add_entity(st.w, p, ConcreteDecorations_create_new("Shell")).w],
          [st EXCEPT !.w = add_entity(st.w, p, ConcretePlants_create_new("Kelp", NoId)).w,
                     !.important_tiles = Append(@, p)]}

RECURSIVE decorate(_, _)
decorate(sts, ps) ==
    IF ps = <<>> THEN sts
    ELSE decorate(UNION {decorate_tile(st, Head(ps)) : st \in sts}, Tail(ps))

\* A new board of the given size with nothing placed.
Unpopulated(rows, cols) ==
    [w |-> [board |-> [p \in BoardPositions(rows, cols) |-> NoEntity], em |-> EntityManager_new],
     important_tiles |-> <<>>, panicked |-> FALSE]

\* populate_board that refuses a board exactly as large as the creature count.
populate_board_no_full(rows, cols, fish, crab, shark) ==
    IF rows = 0 \/ rows * cols = 0 \/ rows * cols <= fish + crab + shark
    THEN {[Unpopulated(rows, cols) EXCEPT !.panicked = TRUE]}
    ELSE decorate(place_creatures({Unpopulated(rows, cols)},
                                  generate_creatures(fish, crab, shark)),
                  RowMajor(rows, cols))

\* populate_board: the outcomes of a call on a new board. With no rows,
\* board.board[board_rows - 1] panics (on the subtraction, or on the index
\* when the subtraction wraps); then the two panics of the function.
populate_board(rows, cols, fish, crab, shark) ==
    IF rows = 0 \/ rows * cols = 0 \/ rows * cols < fish + crab + shark
    THEN {[Unpopulated(rows, cols) EXCEPT !.panicked = TRUE]}
    ELSE decorate(place_creatures({Unpopulated(rows, cols)},
                                  generate_creatures(fish, crab, shark)),
                  RowMajor(rows, cols))

\* Board::range called on boards of every size up to the 6 by 6 of
\* test_board_range, around every tile of the board.
MaxRangeSide == 6
MaxRadius == 2

CallRange ==
    /\ pc = "unit"
    /\ last.op = "none"
    /\ \E rows \in 1..MaxRangeSide, cols \in 1..MaxRangeSide :
         \E center \in BoardPositions(rows, cols), radius \in 0..MaxRadius,
            include_self \in BOOLEAN :
               last' = [op |-> "range", rows |-> rows, cols |-> cols, center |-> center,
                        radius |-> radius, include_self |-> include_self,
                        out |-> range_on(rows - 1, cols - 1, radius, include_self, center)]
    /\ UNCHANGED <<board, entity_context, clock, last_event, pc, todo, futures, results,
                   event, loop_rx, sent, tx, event_msg, event_res, ticks, phases, received,
                   decision, everDied, calls>>

CallPopulateBoard ==
    /\ pc = "unit"
    /\ last.op = "none"
    /\ \E rows \in 0..MaxSide, cols \in 0..MaxSide :
         \E fish \in 0..MaxOfKind, crab \in 0..MaxOfKind, shark \in 0..MaxOfKind :
            \E out \in populate_board(rows, cols, fish, crab, shark) :
               last' = [op |-> "populate_board", rows |-> rows, cols |-> cols, fish |-> fish,
                        crab |-> crab, shark |-> shark, out |-> out]
    /\ UNCHANGED <<board, entity_context, clock, last_event, pc, todo, futures, results,
                   event, loop_rx, sent, tx, event_msg, event_res, ticks, phases, received,
                   decision, everDied, calls>>

UnitNext ==
    \/ CallGetNextNode
    \/ CallGetAllPossibleActions
    \/ CallGetNextAction
    \/ CallCreateOffspring
    \/ CallHandleMoves
    \/ CallEat
    \/ CallOnEat
    \/ CallPopulateBoard
    \/ CallRange
    \/ CallEatTick
    \/ CallGetBestPossibleBehavior
    \/ CallGetMovement

UnitSpec == UnitInit /\ [][UnitNext]_vars

\* ---------------------------------------------------------------- TestBed
\* TestBed::run_n_steps with run_moves and run_events off, as the tests of
\* animals.rs drive the sandbox: handle_processing (when asked for) and
\* handle_late_processing, step after step.
StarvationSteps == 100
MatingSteps == 38
GrowthSteps == 20

\* The boards of the test beds: the crab of verify_starvation, and a crab, a
\* fish and a shark that have never eaten and have just become starving,
\* alone on the board; the two crabs of verify_mating, and two crabs that
\* lived until they were ready to mate, next to each other; a kelp seed two
\* steps from growing into a leaf with a full crab walking the board. The
\* steps are those of the game loop, whose sanity_check after each phase
\* run_n_steps does not make: it never fails on these boards.
\* The crabs of verify_mating: new crabs whose sex and ticks_since_last_mating
\* the test writes.
TestCrab(sex) ==
    [ConcreteAnimals_create_new("Crab", NoId, sex) EXCEPT !.ticks_since_last_mating = 1000]

\* The crab of verify_starvation: a new crab whose hunger_level and hunger
\* the test writes.
StarvedCrab ==
    [ConcreteAnimals_create_new("Crab", NoId, "Neutral") EXCEPT !.hunger_level = -5,
                                                                !.hunger = "Starving"]

TestBeds ==
    {[name |-> "starvation", steps |-> StarvationSteps, process |-> FALSE,
      w |-> Layout(<< At(1, 1, animal) >>, Positions)] :
        animal \in {StarvedCrab}
                     \cup {Grown(ConcreteAnimals_create_new(kind, NoId, sex), age) :
                              <<kind, sex, age>> \in {<<"Crab", "Neutral", 105>>,
                                                       <<"Fish", "Female", 53>>,
                                                       <<"Shark", "Male", 34>>}}}
      \cup
    {[name |-> "mating", steps |-> MatingSteps, process |-> TRUE,
      w |-> Layout(<< At(1, 2, pair[1]), At(1, 1, pair[2]) >>, Positions)] :
        pair \in {<<UnitMateReadyCrab, UnitMateReadyCrab>>,
                  <<TestCrab("Male"), TestCrab("Female")>>}}
      \cup
    {[name |-> "growth", steps |-> GrowthSteps, process |-> TRUE,
      w |-> Layout(<< At(0, 0, Grown(ConcretePlants_create_new("KelpSeed", NoId), 48)),
                      At(2, 2, Grown(ConcreteAnimals_create_new("Crab", NoId, "Neutral"), 17)) >>,
                   Positions)]}

\* TestBed::new_with_entities
TestBedInit ==
    \E tb \in TestBeds :
        /\ board = tb.w.board
        /\ entity_context = tb.w.em
        /\ clock = 0
        /\ last_event = 0
        /\ pc = "events"
        /\ todo = {}
        /\ futures = {}
        /\ results = {}
        /\ event = "None"
        /\ loop_rx = <<>>
        /\ sent = 0
        /\ tx = 0
        /\ event_msg = FALSE
        /\ event_res = FALSE
        /\ ticks = 0
        /\ phases = <<>>
        /\ received = 0
        /\ decision = NoMessage
        /\ everDied = DeadIds(Held(tb.w.board, {}, {}))
        /\ last = [op |-> "testbed", name |-> tb.name, steps |-> tb.steps,
                   process |-> tb.process]
        /\ calls = 0

\* The head of the loop of run_n_steps: the next step starts with the phase
\* the test asked for, which takes its snapshot of the important entities.
TestBedStep ==
    /\ pc = "events"
    /\ last.op = "testbed"
    /\ ticks < last.steps
    /\ ticks' = ticks + 1
    /\ pc' = IF last.process THEN "processing" ELSE "late_processing"
    /\ todo' = get_active_positions(entity_context)
    /\ UNCHANGED <<board, entity_context, clock, last_event, futures, results, event,
                   loop_rx, sent, tx, event_msg, event_res, phases, received, decision,
                   everDied, last, calls>>

TestBedNext ==
    \/ TestBedStep
    \/ HandleProcessingStep
    \/ SanityAfterProcessing
    \/ LateCollect
    \/ LateRun
    \/ LateApply
    \/ SanityAfterLate

TestBedSpec == TestBedInit /\ [][TestBedNext]_vars

\* run_n_steps has returned: every step of the test has been taken.
TestBedDone == pc = "events" /\ last.op = "testbed" /\ ticks = last.steps

\* ------------------------------------------------------------- properties
Animals == {e \in Held(board, futures, results) : IsAnimal(e)}
Plants == {e \in Held(board, futures, results) : IsPlant(e)}
PhaseOrder == <<"moves", "processing", "late_processing", "events">>
Awaiting == pc \in {"await_decision", "await_proceed"}

\* A phase of the tick has just ended: its loop is through and the next phase
\* has not touched anything yet.
PhaseEnded ==
    \/ pc \in {"moves", "processing"} /\ todo = {}
    \/ pc = "late_processing" /\ todo = {} /\ futures = {} /\ results = {}
    \/ pc = "events"
    \/ Awaiting
    \/ pc = "moves" /\ todo = get_active_positions(entity_context)

\* C1: at the end of every tick phase, every (id, pos) entry of the registry
\* names a tile that is occupied by the entity with that id, and no two ids
\* map to the same position.
C1_RegistryConsistent ==
    PhaseEnded =>
        /\ \A id \in DOMAIN entity_context.active_entities :
             LET pos == entity_context.active_entities[id]
             IN is_occupied(board, pos) /\ Entity_get_id(board[pos]) = id
        /\ \A i, j \in DOMAIN entity_context.active_entities :
             entity_context.active_entities[i] = entity_context.active_entities[j] => i = j

\* A late-processing phase has ended in which an entity was deleted while
\* others stay registered.
C1_Witness ==
    /\ pc = "late_processing" /\ todo = {} /\ futures = {} /\ results = {}
    /\ DOMAIN entity_context.active_entities # {}
    /\ Cardinality(DOMAIN entity_context.active_entities) < Len(entity_context.issued)

\* C2: add_entity on an occupied tile returns Err with the rejected entity
\* and changes nothing: the occupant stays, the registry has no entry added or
\* moved, and no id is issued.
C2_AddOnOccupiedRejected ==
    (last.op = "add" /\ is_occupied(last.before.board, last.position)) =>
        /\ ~last.ok
        /\ last.err = last.given
        /\ board = last.before.board
        /\ entity_context = last.before.em

\* add_entity was called on an occupied tile with a tracked entity that has
\* no id yet.
C2_Witness ==
    /\ last.op = "add"
    /\ is_occupied(last.before.board, last.position)
    /\ Entity_tracked(last.given)
    /\ Entity_get_id(last.given) = NoId

\* C3: every id register_new_entity issues is greater than every id issued
\* before it, so no id is ever issued twice, also after its holder was
\* removed.
C3_IdsStrictlyIncrease ==
    \A i, j \in DOMAIN entity_context.issued :
        i < j => entity_context.issued[i] < entity_context.issued[j]

\* The last call registered a new entity after an earlier id had left the
\* registry.
C3_Witness ==
    /\ last.op = "add" /\ last.ok
    /\ Entity_tracked(last.given) /\ Entity_get_id(last.given) = NoId
    /\ Cardinality(DOMAIN last.before.em.active_entities) < Len(last.before.em.issued)
    /\ Len(entity_context.issued) = Len(last.before.em.issued) + 1

\* C4: in every iteration the phases run once each in the order moves,
\* processing, late processing, events, and the next iteration's first phase
\* starts only after the events phase of the current one.
C4_PhaseOrder ==
    /\ [](pc \in {"moves", "processing", "late_processing", "events"} =>
            /\ phases = SubSeq(PhaseOrder, 1, Len(phases))
            /\ Len(phases) >= 1
            /\ pc = phases[Len(phases)])
    /\ [](Awaiting => phases = PhaseOrder)
    /\ [][phases' # phases /\ phases' = <<"moves">> => phases = PhaseOrder]_vars

\* The second iteration has reached its events phase.
C4_Witness == pc = "events" /\ phases = PhaseOrder /\ ticks >= 1

\* C5: while the loop waits for the decision on a fired event no phase runs
\* (board, registry, clock and the phase bookkeeping stay as they are), and
\* the wait ends only by taking a message that was sent on the channel.
C5_SuspendedUntilDecision ==
    [][pc = "await_decision" =>
         /\ clock' = clock /\ ticks' = ticks
         /\ todo' = todo /\ futures' = futures /\ results' = results
         /\ pc' \in {"await_decision", "await_proceed"}
         /\ (pc' # pc \/ board' # board \/ entity_context' # entity_context) =>
               (loop_rx # <<>> /\ sent > 0 /\ loop_rx' = Tail(loop_rx))]_vars

\* The loop waits for a decision and the channel is empty.
C5_Witness == pc = "await_decision" /\ event # "None" /\ loop_rx = <<>> /\ ticks >= 1

C7_StaleNeverConsumed == decision.none \/ decision.pending

\* C8: every animal has 0 <= hp <= hp_max after every operation on it.
C8_AnimalHealthBounds == \A a \in Animals : 0 <= a.hp /\ a.hp <= a.hp_max

\* An animal was eaten down to hp 0 while another has been through its
\* per-tick health processing.
C8_Witness ==
    /\ \E a \in Animals : a.hp = 0 /\ a.has_died
    /\ \E a \in Animals : a.hp = a.hp_max /\ a.age >= 1

\* C9: every plant has 0 <= hp <= hp_max at all times, from its creation on.
C9_PlantHealthBounds == \A p \in Plants : 0 <= p.hp /\ p.hp <= p.hp_max

\* C10: an entity whose id was seen with has_died set is dead wherever an
\* entity with that id is seen later.
C10_DeathIsFinal ==
    \A e \in Animals \cup Plants : e.id \in everDied => e.has_died

\* A plant that died in an earlier phase has come out of its late
\* processing still dead.
C10_Witness ==
    \E r \in results : IsPlant(r.ent) /\ r.ent.has_died /\ r.ent.id \in everDied

\* C11 as stated: after an animal has eaten another animal the target is dead.
C11_EatenAnimalDies ==
    (last.op = "eat" /\ IsAnimal(last.target)) => last.out.target.has_died

\* C12: a bite lowers a live plant's hp by exactly 1 whatever the attack
\* value, and the plant is dead afterwards exactly when its hp was 1.
C12_PlantLosesOneHp ==
    (last.op \in {"eat", "on_eat"} /\ IsPlant(last.target)) =>
        /\ last.out.target.hp = last.target.hp - 1
        /\ last.out.target.has_died <=> last.target.hp = 1
        /\ last.op = "eat" => last.out.delete_target = (last.target.hp = 1)

\* A kelp with one bite left was bitten with attack 100 and died; the same
\* attack on a fresh kelp would leave it alive.
C12_Witness ==
    /\ last.op = "on_eat" /\ last.attack = 100
    /\ last.target.kind = "Kelp" /\ last.target.hp = 1
    /\ last.out.target.has_died /\ last.out.target.hp = 0

\* C13: when a late-processing phase has ended, no animal with has_died set
\* (or whose id was seen dead) is on a tile, and no registry entry leads to one.
C13_DeadAnimalsRemoved ==
    pc = "events" =>
        /\ \A p \in Positions :
             IsAnimal(board[p]) => ~board[p].has_died /\ board[p].id \notin everDied
        /\ \A id \in DOMAIN entity_context.active_entities :
             LET e == board[entity_context.active_entities[id]]
             IN IsAnimal(e) => e.id = id /\ ~e.has_died /\ id \notin everDied

\* The late-processing phase after the shark's meal has ended: the fish that
\* died is gone from the board and from the registry, the shark is there.
C13_Witness ==
    /\ pc = "events"
    /\ everDied # {}
    /\ everDied \cap DOMAIN entity_context.active_entities = {}
    /\ \E p \in Positions : board[p].kind = "Shark"
    /\ \A p \in Positions : board[p].kind # "Fish"

\* C14: a step of the move phase that relocates an entity puts the same
\* entity, with the id it had, on the new tile and empties the old one; the
\* registry changes only in that this id now maps to the new position, and
\* no id is issued.
C14_MoveKeepsId ==
    [][(pc = "moves" /\ pc' = "moves" /\ board' # board) =>
         \E pos, new_pos \in Positions :
            LET id == Entity_get_id(board[pos])
            IN /\ pos # new_pos
               /\ IsAnimal(board[pos])
               /\ board' = [board EXCEPT ![pos] = NoEntity, ![new_pos] = board[pos]]
               /\ id \in DOMAIN entity_context.active_entities
               /\ entity_context.active_entities[id] = pos
               /\ entity_context' =
                      [entity_context EXCEPT !.active_entities = [@ EXCEPT ![id] = new_pos]]]_vars

\* In the first move phase of the hunt the shark (id 1, placed at (0, 0))
\* stands on another tile and is registered there; two ids were issued.
C14_Witness ==
    /\ pc = "moves" /\ ticks = 0 /\ clock = 17
    /\ \E p \in Positions \ {Pos(0, 0)} :
          /\ board[p].kind = "Shark" /\ board[p].id = 1
          /\ entity_context.active_entities[1] = p
    /\ Len(entity_context.issued) = 2

\* C15: a proposed move to a position out of bounds or to an occupied tile
\* changes nothing: the mover stays on its tile, the target tile and the
\* registry are as before. (handle_moves visits each position of its snapshot
\* once, so the move is not tried again in that tick.)
C15_BadMoveDropped ==
    (/\ last.op = "handle_moves"
     /\ last.new_move # NoPos
     /\ \/ ~is_valid_pos(last.new_move)
        \/ is_occupied(last.before.board, last.new_move)) =>
        /\ last.out = last.before
        /\ is_occupied(last.out.board, last.pos)

\* An animal proposed a move onto an occupied tile other than its own.
C15_Witness ==
    /\ last.op = "handle_moves"
    /\ IsAnimal(last.before.board[last.pos])
    /\ last.new_move \in Positions \ {last.pos}
    /\ IsAnimal(last.before.board[last.new_move]) \/ IsPlant(last.before.board[last.new_move])

\* The tiles around the parent that were unoccupied when create_offspring
\* was called.
EmptyAround ==
    {p \in SeqToSet(range(1, FALSE, last.pos)) : ~is_occupied(last.before.board, p)}

\* C16: every child of a create_offspring call stands on a tile next to the
\* parent that was unoccupied, no two children share a tile, every occupant
\* of the board is untouched, and at least min(min_offspring, number of
\* empty neighbouring tiles) children were placed.
C16_ChildrenOnEmptyTiles ==
    last.op = "create_offspring" =>
        LET spread == last.out.positions_spread
        IN /\ \A i \in DOMAIN spread :
                /\ spread[i] \in EmptyAround
                /\ is_occupied(last.out.w.board, spread[i])
                /\ Entity_get_id(last.out.w.board[spread[i]]) \notin
                       DOMAIN last.before.em.active_entities
           /\ \A i, j \in DOMAIN spread : spread[i] = spread[j] => i = j
           /\ \A p \in Positions :
                is_occupied(last.before.board, p) => last.out.w.board[p] = last.before.board[p]
           /\ \A p \in Positions \ SeqToSet(spread) : last.out.w.board[p] = last.before.board[p]
           /\ Len(spread) >= Min(get_offspring_data(last.self).min_offspring,
                                 Cardinality(EmptyAround))

\* The fish gave birth: one child on one of its two free tiles, the kelp
\* next to it untouched.
C16_Witness ==
    /\ last.op = "create_offspring"
    /\ last.self.kind = "Fish"
    /\ Cardinality(EmptyAround) = 2
    /\ Len(last.out.positions_spread) = 1
    /\ last.out.w.board[last.out.positions_spread[1]].kind = "Fish"
    /\ last.out.w.board[Pos(0, 0)].kind = "Kelp"

\* C17 as stated: one call of create_offspring places at most max_offspring
\* children.
C17_AtMostMaxOffspring ==
    last.op = "create_offspring" =>
        Len(last.out.positions_spread) <= get_offspring_data(last.self).max_offspring

\* The three conditions under which an animal gives up its current behaviour
\* for the winning candidate of the call recorded in last.
MaySwitch ==
    \/ completed(last.self.current_behavior)
    \/ ~is_valid(last.self.current_behavior, last.self, last.before, last.pos)
    \/ priority(last.best.behavior) > priority(last.self.current_behavior)

OthersOnBoard ==
    {p \in Positions \ {last.pos} :
        is_occupied(last.before.board, p) /\ ~IsNonLiving(last.before.board[p])}

\* C19 as stated: the candidates are the Idle candidate followed by Eating and
\* Mating candidates at registered positions other than the actor's own; a
\* hungry crab with one edible plant gets exactly 2 candidates, and so does a
\* crab ready to mate with one compatible crab.
C19_CandidatesExcludeSelf ==
    last.op = "get_all_possible_actions" =>
        /\ last.out[1] = [pos |-> last.pos, behavior |-> IdleAction_new(TRUE, TRUE)]
        /\ \A i \in 2..Len(last.out) :
              /\ last.out[i].behavior.tag \in {"Eating", "Mating"}
              /\ last.out[i].pos \in get_active_positions(last.before.em)
              /\ last.out[i].pos # last.pos
        /\ \A p \in OthersOnBoard :
              (/\ OthersOnBoard = {p}
               /\ last.self.kind = "Crab"
               /\ \/ /\ IsPlant(last.before.board[p])
                     /\ can_eat(last.self, last.before.board[p])
                     /\ ~can_mate(last.self)
                  \/ /\ compatible_mate(last.self, last.before.board[p])
                     /\ ~should_consider_eating(last.self))
              => Len(last.out) = 2

\* The position is within the budget of the recorded call, measured from
\* its start.
WithinBudget(p) ==
    /\ Abs(p.x - last.start.x) <= last.max_x
    /\ Abs(p.y - last.start.y) <= last.max_y

\* C20: get_next_node returns none, or a position of the path that differs
\* from start and lies within (max_x, max_y) of it in both axes; it returns
\* none when the first position of the path is beyond the budget.
C20_NextNodeWithinBudget ==
    last.op = "get_next_node" =>
        /\ last.out # NoPos =>
              /\ last.out # last.start
              /\ WithinBudget(last.out)
              /\ \E i \in DOMAIN last.path : last.path[i] = last.out
        /\ (last.path # <<>> /\ ~WithinBudget(last.path[1])) => last.out = NoPos
        /\ ~last.found => last.out = NoPos

\* A path whose first step is within the budget and whose second is beyond
\* it: the first step is returned.
C20_Witness ==
    /\ last.op = "get_next_node"
    /\ Len(last.path) = 2
    /\ WithinBudget(last.path[1])
    /\ ~WithinBudget(last.path[2])
    /\ last.out = last.path[1]

\* C21 as stated: when find_path_bfs finds a goal, the path it returns does
\* not contain the start position and ends with the goal position.
C21_PathEndsAtGoal ==
    (last.op = "get_next_node" /\ last.bfs /\ last.found) =>
        /\ \A i \in DOMAIN last.path : last.path[i] # last.start
        /\ last.path # <<>>
        /\ last.path[Len(last.path)] \in last.goals

\* The path from start to the goal of the recorded call, start left out and
\* the goal put at its end, and the position get_next_node keeps of it.
PathToGoal == SelectSeq(last.path, LAMBDA p : p # last.start) \o <<last.goal>>
FurthestOnPath == NextNodeScan(last.start, last.max_x, last.max_y, PathToGoal, NoPos)

\* C30 as stated: when the Eating or Mating behaviour is valid and the BFS
\* finds a target whose first path step is within the movement budget,
\* get_movement returns the furthest position of that path within the budget,
\* not a position of the random walk.
C30_MovesAlongPath ==
    (/\ last.op = "get_next_node" /\ last.bfs /\ last.valid /\ last.found
     /\ WithinBudget(PathToGoal[1]))
        => last.moves = {FurthestOnPath}

\* The test bed has returned or can take its next step: in handle_processing
\* a snapshot position is left to visit and process has an outcome for it, or
\* one of the other steps is enabled.
TestBedRuns ==
    \/ TestBedDone
    \/ /\ pc = "processing"
       /\ \E pos \in todo : ~is_occupied(board, pos) \/ ProcessOutcomes(W, pos) # {}
    \/ ENABLED (TestBedStep \/ SanityAfterProcessing \/ LateCollect \/ LateRun
                  \/ LateApply \/ SanityAfterLate)

\* The test bed of the two crabs, its population, and what each animal on the
\* board is offered by get_all_possible_actions, called on it where it stands
\* (as verify_mating calls it) and off its tile (as process calls it).
MatingBed == last.op = "testbed" /\ last.name = "mating"
Population == Cardinality(DOMAIN entity_context.active_entities)
HaveMated ==
    /\ \E p \in Positions : board[p].kind = "Crab" /\ board[p].pregnant
    /\ \A p \in Positions :
          board[p].kind = "Crab" =>
              /\ board[p].ticks_since_last_mating <= 1
              /\ board[p].sex # "Male" => board[p].pregnant
OnlyIdleOffered ==
    \A p \in Positions :
        IsAnimal(board[p]) =>
            \A on_tile \in BOOLEAN :
                LET used == IF on_tile THEN W ELSE remove_entity(W, p).w
                IN \A order \in Perms(DOMAIN used.em.active_entities) :
                      get_all_possible_actions(board[p], used, p, order)
                        = << [pos |-> p, behavior |-> IdleAction_new(TRUE, TRUE)] >>

\* C22: two adjacent crabs ready to mate, with the process and late-process
\* phases running: they mate in the first step (the mating cooldown of both
\* restarts and every crab that is not male is pregnant); from the end of that step on
\* no animal on the board is offered a Mating candidate, only Idle; and when
\* the steps of the test have run a child has been born, so that the registry
\* holds more than 2 entities. The run never stops before its last step.
C22_MatingBearsChild ==
    MatingBed =>
        /\ pc # "panic"
        /\ (pc = "events" /\ ticks = 1) => HaveMated
        /\ (pc = "events" /\ ticks >= 1) => OnlyIdleOffered
        /\ TestBedDone => Population > 2
        /\ TestBedRuns

\* The processing phase in which the children are born has ended: more than
\* two crabs, a newborn at age 0 before its first late-process phase.
C22_Witness ==
    /\ MatingBed
    /\ Population > 2
    /\ pc = "late_processing"
    /\ \E p \in Positions : board[p].kind = "Crab" /\ board[p].age = 0 /\ board[p].id # NoId
    /\ \E p \in Positions : board[p].kind = "Crab" /\ board[p].age > 0 /\ ~board[p].pregnant

\* The test bed of one starving animal, with only the late-process phase run.
StarvationBed == last.op = "testbed" /\ last.name = "starvation"
HungerOnBoard == {board[p].hunger : p \in {q \in Positions : IsAnimal(board[q])}}

\* C23: an animal that is starving and is never fed (only the late-process
\* phase runs, so it never eats) stays starving or famished between the
\* steps, the run never stops before its last step, and when the 100 steps of
\* verify_starvation have run the animal is dead and removed: no tile is
\* occupied and the registry is empty.
C23_StarvingDies ==
    StarvationBed =>
        /\ pc # "panic"
        /\ pc = "events" => HungerOnBoard \subseteq {"Starving", "Famished"}
        /\ TestBedDone => Population = 0 /\ \A p \in Positions : ~is_occupied(board, p)
        /\ TestBedRuns

\* The starving animal has died and the late-process phase has deleted it.
C23_Witness ==
    /\ StarvationBed
    /\ TestBedDone
    /\ Population = 0
    /\ everDied # {}
    /\ \A p \in Positions : ~is_occupied(board, p)

\* What an animal's hunger_level is to lose in a late-process phase.
SpeciesRate(e) == CASE e.kind = "Fish" -> 2 [] e.kind = "Shark" -> 3 [] e.kind = "Crab" -> 1
LivingAnimal(e) == IsAnimal(e) /\ ~e.has_died

\* C24: in every late-process phase a living animal goes through, its
\* hunger_level drops by exactly its species rate (fish 2, shark 3, crab 1)
\* and nothing in the phase feeds it: the future made for it holds the
\* hunger_level it had on its tile, the result of the future holds that level
\* less the rate, and the animal put back on its tile holds the result's.
C24_HungerDropsByRate ==
    [][/\ \A f \in futures' \ futures :
             LivingAnimal(f.ent) => f.ent.hunger_level = board[f.pos].hunger_level
       /\ \A f \in futures \ futures' :
             LivingAnimal(f.ent) =>
                 \E r \in results' \ results :
                     /\ r.pos = f.pos
                     /\ r.ent.id = f.ent.id
                     /\ r.ent.hunger_level = f.ent.hunger_level - SpeciesRate(f.ent)
                     /\ r.ent.hunger_level < f.ent.hunger_level
       /\ \A r \in results \ results' :
             (LivingAnimal(r.ent) /\ r.hint.tag = "None") =>
                 /\ board'[r.pos].id = r.ent.id
                 /\ board'[r.pos].hunger_level = r.ent.hunger_level]_vars

\* A shark has been through late_process and is back on its tile alive, the
\* phase's results all applied.
C24_Witness ==
    /\ pc = "late_processing" /\ todo = {} /\ futures = {} /\ results = {}
    /\ \E p \in Positions :
          board[p].kind = "Shark" /\ LivingAnimal(board[p]) /\ board[p].age >= 1

\* The form a plant grows into.
NextForm(kind) == CASE kind = "KelpSeed" -> "KelpLeaf" [] kind = "KelpLeaf" -> "Kelp"
GrowthBed == last.op = "testbed" /\ last.name = "growth"

\* C25: when late_process of a plant returns ReplaceMeWith, the replacement is
\* the plant's next form and carries the plant's EntityID; and when
\* handle_late_processing applies that result, the tile the plant stood on
\* holds the replacement with that EntityID and the registry maps the ID to
\* that position.
C25_GrowthKeepsId ==
    [][/\ \A r \in results' \ results :
             (IsPlant(r.ent) /\ r.hint.tag = "ReplaceMeWith") =>
                 /\ r.hint.entity.kind = NextForm(r.ent.kind)
                 /\ r.hint.entity.id = r.ent.id
                 /\ r.ent.id # NoId
       /\ \A r \in results \ results' :
             (IsPlant(r.ent) /\ r.hint.tag = "ReplaceMeWith") =>
                 /\ board'[r.pos].kind = NextForm(r.ent.kind)
                 /\ board'[r.pos].id = r.ent.id
                 /\ r.ent.id \in DOMAIN entity_context'.active_entities
                 /\ entity_context'.active_entities[r.ent.id] = r.pos]_vars

\* The seed of the growth bed has grown into a leaf and the leaf into a kelp,
\* which stands on the seed's tile under the seed's ID.
C25_Witness ==
    /\ GrowthBed
    /\ pc = "events"
    /\ \E p \in Positions :
          /\ board[p].kind = "Kelp"
          /\ board[p].id # NoId
          /\ board[p].id \in DOMAIN entity_context.active_entities
          /\ entity_context.active_entities[board[p].id] = p

\* A living entity, as Entity::Living is: a plant or an animal.
IsLiving(e) == IsAnimal(e) \/ IsPlant(e)

\* C26: add_entity of a living entity that carries no ID, on an empty tile,
\* succeeds, stores the entity under an ID the registry did not hold and maps
\* that ID to the tile's position; remove_entity on a tile whose living entity
\* carries an ID returns that entity still carrying the ID, empties the tile
\* and deletes the ID's registry entry, the other entries staying.
C26_AddIssuesRemoveDeletes ==
    /\ (/\ last.op = "add"
        /\ IsLiving(last.given) /\ last.given.id = NoId
        /\ ~is_occupied(last.before.board, last.position)) =>
           /\ last.ok
           /\ board[last.position] = [last.given EXCEPT !.id = board[last.position].id]
           /\ board[last.position].id # NoId
           /\ board[last.position].id \notin DOMAIN last.before.em.active_entities
           /\ DOMAIN entity_context.active_entities
                = DOMAIN last.before.em.active_entities \cup {board[last.position].id}
           /\ entity_context.active_entities[board[last.position].id] = last.position
    /\ (/\ last.op = "remove"
        /\ IsLiving(last.before.board[last.position])
        /\ last.before.board[last.position].id # NoId) =>
           /\ last.taken = last.before.board[last.position]
           /\ ~is_occupied(board, last.position)
           /\ DOMAIN entity_context.active_entities
                = DOMAIN last.before.em.active_entities \ {last.taken.id}
           /\ \A id \in DOMAIN entity_context.active_entities :
                 entity_context.active_entities[id] = last.before.em.active_entities[id]

\* An entity that add_entity issued an ID on this tile has been taken off it
\* by remove_entity while another tracked entity stays registered.
C26_Witness ==
    /\ last.op = "remove"
    /\ IsLiving(last.taken) /\ last.taken.id # NoId
    /\ last.taken.id \in DOMAIN last.before.em.active_entities
    /\ last.before.em.active_entities[last.taken.id] = last.position
    /\ DOMAIN entity_context.active_entities # {}

\* The tiles of the board populate_board returned that hold an animal of the
\* kind.
TilesOfKind(kind) == {p \in DOMAIN last.out.w.board : last.out.w.board[p].kind = kind}
Populated == last.op = "populate_board"
Requested == last.fish + last.crab + last.shark

\* C27: populate_board on a new board with rows*cols > 0 and at least as many
\* tiles as creatures (equality included) does not panic and leaves exactly
\* the requested number of fish, of crabs and of sharks, each on a tile of its
\* own and each under an ID of its own that the registry maps to its tile;
\* with more creatures than tiles, or with no tiles, it panics.
C27_PopulateExact ==
    Populated =>
        IF last.rows * last.cols > 0 /\ Requested <= last.rows * last.cols
        THEN /\ ~last.out.panicked
             /\ Cardinality(TilesOfKind("Fish")) = last.fish
             /\ Cardinality(TilesOfKind("Crab")) = last.crab
             /\ Cardinality(TilesOfKind("Shark")) = last.shark
             /\ \A p \in DOMAIN last.out.w.board :
                   IsAnimal(last.out.w.board[p]) =>
                       /\ last.out.w.board[p].id \in DOMAIN last.out.w.em.active_entities
                       /\ last.out.w.em.active_entities[last.out.w.board[p].id] = p
        ELSE last.out.panicked

\* populate_board filled every tile of a 2 by 2 board with creatures of the
\* three kinds, one of them placed by the row-major fallback.
C27_Witness ==
    /\ Populated
    /\ last.rows = 2 /\ last.cols = 2 /\ Requested = 4
    /\ last.fish > 0 /\ last.crab > 0 /\ last.shark > 0
    /\ ~last.out.panicked
    /\ Len(last.out.important_tiles) < 4
    /\ FreeTiles(last.out.w.board) = {}

\* The square neighbourhood of the center on the board of the call, and how
\* far the center is from the nearest edge.
Distance(a, b) == IF a >= b THEN a - b ELSE b - a
Neighbourhood ==
    {p \in BoardPositions(last.rows, last.cols) :
        /\ Distance(p.x, last.center.x) <= last.radius
        /\ Distance(p.y, last.center.y) <= last.radius
        /\ last.include_self \/ p # last.center}
Interior ==
    /\ last.center.x >= last.radius /\ last.center.x + last.radius <= last.cols - 1
    /\ last.center.y >= last.radius /\ last.center.y + last.radius <= last.rows - 1

\* C28: Board::range returns exactly the positions of the board whose x and y
\* each differ from the center's by at most radius, each once, without the
\* center when include_self is false: 8 positions for radius 1 in the
\* interior without the center, 25 for radius 2 in the interior with it, 8 for
\* radius 2 at the corner (0, 0) of a board at least 3 by 3 without it.
C28_RangeExact ==
    last.op = "range" =>
        /\ {last.out[i] : i \in DOMAIN last.out} = Neighbourhood
        /\ Len(last.out) = Cardinality(Neighbourhood)
        /\ (last.radius = 1 /\ ~last.include_self /\ Interior) => Len(last.out) = 8
        /\ (last.radius = 2 /\ last.include_self /\ Interior) => Len(last.out) = 25
        /\ (/\ last.radius = 2 /\ ~last.include_self /\ last.center = Pos(0, 0)
            /\ last.rows >= 3 /\ last.cols >= 3) => Len(last.out) = 8

\* The second call of test_board_range: radius 2 with the center, around
\* (3, 3) on a 6 by 6 board.
C28_Witness ==
    /\ last.op = "range"
    /\ last.rows = 6 /\ last.cols = 6 /\ last.center = Pos(3, 3)
    /\ last.radius = 2 /\ last.include_self
    /\ Len(last.out) = 25

\* The tick of the last call has eaten a target (the board it was given has
\* changed), or has found that the actor does not want to eat.
HasEaten == last.out.board # last.before.board
WantsNoFood == ~should_consider_eating(last.self)

\* C29 as stated: a newly created Eating behaviour reports completed() false,
\* and reports completed() true once its tick has eaten a target or has found
\* that the actor no longer wants to eat.
C29_EatCompletesAfterEating ==
    last.op = "eat_tick" =>
        /\ ~last.completed_new
        /\ (HasEaten \/ WantsNoFood) => last.completed_out

\* The tiles next to a tile, orthogonally or diagonally, and the tiles a
\* search from the start of the last call can stand on: the start and every
\* unoccupied tile joined to it by a chain of such neighbours.
Neighbours(p) ==
    {q \in Positions : q # p /\ Distance(q.x, p.x) <= 1 /\ Distance(q.y, p.y) <= 1}
RECURSIVE Flood(_)
Flood(seen) ==
    LET more == {q \in Positions \ seen :
                    ~is_occupied(last.board, q) /\ \E p \in seen : q \in Neighbours(p)}
    IN IF more = {} THEN seen ELSE Flood(seen \cup more)
GoalReachable ==
    \E g \in last.goals : \E p \in Flood({last.start}) : g \in Neighbours(p)

\* C31 as stated: find_path_bfs returns a path whenever a tile satisfying the
\* goal predicate can be reached from start through a chain of orthogonally
\* or diagonally neighbouring unoccupied tiles, and returns none only when no
\* such tile can be reached.
C31_PathWheneverReachable ==
    (last.op = "get_next_node" /\ last.bfs) => (last.found <=> GoalReachable)

\* The last call asked for the candidates of an actor for which some other
\* registered tile holds an entity it can eat, and the Eating candidates it
\* was offered.
EatableExists ==
    /\ last.op = "get_all_possible_actions"
    /\ \E p \in get_active_positions(last.before.em) :
          p # last.pos /\ is_occupied(last.before.board, p)
                      /\ can_eat(last.self, last.before.board[p])
EatingOffered ==
    {last.out[i].behavior : i \in {j \in DOMAIN last.out : last.out[j].behavior.tag = "Eating"}}

\* C32 as stated: an actor in the Starving or the Famished bucket, with an
\* eatable entity on the board, is offered an Eating candidate, and every
\* Eating candidate it is offered has priority 2; a Hungry actor is offered
\* one, and every one it is offered has priority 1.
C32_EatingPriority ==
    EatableExists =>
        /\ last.self.hunger \in {"Starving", "Famished"} =>
               /\ EatingOffered # {}
               /\ \A b \in EatingOffered : priority(b) = 2
        /\ last.self.hunger = "Hungry" =>
               /\ EatingOffered # {}
               /\ \A b \in EatingOffered : priority(b) = 1

\* The floored Euclidean distance from the actor of the last call to a
\* candidate, the candidates of the highest priority, and the nearest of them.
FlooredRoot(n) == CHOOSE r \in 0..n : r * r <= n /\ n < (r + 1) * (r + 1)
Away(c) ==
    FlooredRoot((c.pos.x - last.pos.x) * (c.pos.x - last.pos.x)
                  + (c.pos.y - last.pos.y) * (c.pos.y - last.pos.y))
TopRanked ==
    {i \in DOMAIN last.all :
        \A j \in DOMAIN last.all : priority(last.all[j].behavior) <= priority(last.all[i].behavior)}
Nearest == {i \in TopRanked : \A j \in TopRanked : Away(last.all[i]) <= Away(last.all[j])}

\* C33: get_best_possible_behavior returns none for no candidates; otherwise
\* it returns a candidate of the maximum priority, of the minimum floored
\* Euclidean distance to the actor among the candidates of that priority,
\* and the first enumerated one among those.
C33_BestIsTopNearestFirst ==
    last.op = "get_best_possible_behavior" =>
        IF last.all = <<>> THEN last.out = NoCandidate
        ELSE /\ Nearest # {}
             /\ last.out = last.all[CHOOSE i \in Nearest : \A j \in Nearest : i <= j]

\* Three candidates of the highest priority, the second and the third equally
\* near and nearer than the first, and not the same candidate: the second won.
C33_Witness ==
    /\ last.op = "get_best_possible_behavior"
    /\ Len(last.all) = 3
    /\ TopRanked = {1, 2, 3}
    /\ Nearest = {2, 3}
    /\ last.all[2] # last.all[3]
    /\ last.out = last.all[2]

\* The positions the last call may propose, and the tiles within the actor's
\* movement budget of where it stands.
Proposed == (last.walk \cup last.idle) \ {NoPos}
InBudget(p) ==
    /\ Distance(p.x, last.start.x) <= max_x_movespeed(last.self.kind)
    /\ Distance(p.y, last.start.y) <= max_y_movespeed(last.self.kind)

\* C34 as stated: a position proposed by random_walk or by Idle movement is
\* in bounds, unoccupied and within the actor's per-axis movement budget of
\* the actor's position; and no move is among the outcomes of both.
C34_WalkWithinBudget ==
    last.op = "get_movement" =>
        /\ \A p \in Proposed :
              is_valid_pos(p) /\ ~is_occupied(last.board, p) /\ InBudget(p)
        /\ NoPos \in last.walk /\ NoPos \in last.idle

\* The board and the registry that applying the results rs to w one after the
\* other in one fixed order ends with.
RECURSIVE ApplyAll(_, _)
ApplyAll(w, rs) ==
    IF rs = {} THEN w
    ELSE LET r == CHOOSE x \in rs : TRUE
         IN ApplyAll(late_apply(w, r), rs \ {r})

\* C35: once handle_late_processing has detached the entities, a task that
\* runs, whichever it is, leaves the board and the registry as they are and
\* adds the result of late_process on its own entity for its own position;
\* and whichever result is applied next, the board and the registry the phase
\* ends with stay the same.
C35_LateOrderIrrelevant ==
    [][(pc = "late_processing" /\ todo = {} /\ pc' = "late_processing") =>
          /\ futures' # futures =>
                /\ board' = board /\ entity_context' = entity_context
                /\ \E f \in futures :
                      /\ futures' = futures \ {f}
                      /\ results' = results \cup late_process_entity(f.ent, f.pos)
          /\ futures = {} => ApplyAll(W', results') = ApplyAll(W, results)]_vars

\* Two results are still to be applied after one has been: a living entity is
\* back on its tile, and one of the results left deletes or replaces.
C35_Witness ==
    /\ pc = "late_processing" /\ todo = {} /\ futures = {}
    /\ Cardinality(results) >= 2
    /\ \E p \in Positions : IsLiving(board[p])
    /\ \E r \in results : r.hint.tag # "None"

ResolvesOilSpill == pc = "await_decision" /\ pc' = "await_proceed" /\ event = "OilSpill"

\* The level an Oil Spill lowers: growth_level of a plant,
\* ticks_since_last_mating of an animal.
RepoRate(e) == IF IsPlant(e) THEN e.growth_level ELSE e.ticks_since_last_mating

\* C37 (as stated): resolving an Oil Spill, with either decision, strictly
\* decreases the growth_level of every registered plant and the
\* ticks_since_last_mating of every registered animal.
C37_OilSpillStrictlySlows ==
    [][ResolvesOilSpill =>
          \A p \in get_active_positions(entity_context) :
              IsLiving(board[p]) => RepoRate(board'[p]) < RepoRate(board[p])]_vars

\* C37 (amended): resolving an Oil Spill, with either decision, strictly
\* decreases every positive growth_level of a registered plant and every
\* positive ticks_since_last_mating of a registered animal, never below 0,
\* and leaves a level of 0 at 0.
C37_OilSpillSlowsPositive ==
    [][ResolvesOilSpill =>
          \A p \in get_active_positions(entity_context) :
              IsLiving(board[p]) =>
                  /\ RepoRate(board'[p]) >= 0
                  /\ RepoRate(board[p]) > 0 => RepoRate(board'[p]) < RepoRate(board[p])
                  /\ RepoRate(board[p]) = 0 => RepoRate(board'[p]) = 0]_vars

\* An Oil Spill has been resolved over an animal whose level is still
\* positive and a living entity whose level is 0.
C37_Witness ==
    /\ pc = "await_proceed" /\ event = "OilSpill"
    /\ \E p \in get_active_positions(entity_context) :
          IsAnimal(board[p]) /\ RepoRate(board[p]) > 0
    /\ \E p \in get_active_positions(entity_context) :
          IsLiving(board[p]) /\ RepoRate(board[p]) = 0

\* C38: during the move phase the positions still to visit only shrink, no
\* entity joins or leaves the registry, and an entity whose position changes
\* stood on a position still to visit and lands on one that is not to be
\* visited any more; so no animal is relocated twice in one phase, whatever
\* the order of the visits and whichever tiles were vacated before.
C38_MovedAtMostOnce ==
    [][(pc = "moves" /\ pc' = "moves") =>
          LET before == entity_context.active_entities
              after == entity_context'.active_entities
          IN /\ todo' \subseteq todo
             /\ DOMAIN after = DOMAIN before
             /\ \A i \in DOMAIN before :
                   after[i] # before[i] =>
                       /\ before[i] \in todo
                       /\ after[i] \notin todo
                       /\ after[i] \notin todo']_vars

\* Tick 17: the fish has left (1, 0) and the shark, visited later in the
\* same move phase, has moved onto the tile the fish vacated.
C38_Witness ==
    /\ pc = "moves" /\ clock = 17
    /\ board[Pos(1, 0)].kind = "Shark"
    /\ \E p \in Positions : board[p].kind = "Fish"

\* The animal on p has mated in this step: it could mate before, it is still
\* on p, and its cooldown has been restarted by on_successful_mate.
MatedOn(p) ==
    /\ IsAnimal(board[p]) /\ can_mate(board[p])
    /\ IsAnimal(board'[p]) /\ board'[p].id = board[p].id
    /\ board'[p].ticks_since_last_mating = 0

\* C39: in a step of the processing phase mate changes the state of living
\* animals only: every animal whose cooldown is restarted by a mating, the
\* actor and its partner, is alive.
C39_NoMatingWithTheDead ==
    [][pc = "processing" => \A p \in Positions : MatedOn(p) => ~board[p].has_died]_vars

\* C40: a fired event stays pending while the loop waits; the wait for the
\* decision ends only by taking the first message of the channel and leaving
\* a world process_event gives for the event and that message's value; in the
\* wait that follows nothing changes the board or the registry, and the next
\* message taken only clears the event and resumes the loop. The event is
\* cleared nowhere else.
C40_ResolvedOnceWithFirst ==
    [][/\ pc = "await_decision" =>
            /\ event # "None" /\ received = 0
            /\ pc' = pc => (event' = event /\ board' = board
                             /\ entity_context' = entity_context)
            /\ pc' # pc =>
                  /\ loop_rx # <<>> /\ loop_rx' = Tail(loop_rx)
                  /\ pc' = "await_proceed" /\ event' = event /\ received' = 1
                  /\ decision' = Head(loop_rx)
                  /\ [board |-> board', em |-> entity_context'] \in
                        process_event(event, Head(loop_rx).value, W)
       /\ pc = "await_proceed" =>
            /\ event # "None" /\ received = 1
            /\ board' = board /\ entity_context' = entity_context
            /\ pc' = pc => event' = event
            /\ pc' # pc =>
                  /\ loop_rx # <<>> /\ loop_rx' = Tail(loop_rx)
                  /\ pc' = "moves" /\ event' = "None"
       /\ (event # "None" /\ event' # event) => pc = "await_proceed"]_vars

\* An event has been resolved and the loop has resumed on a second message.
C40_Witness ==
    /\ pc = "moves" /\ event = "None" /\ received = 2 /\ ~decision.none /\ ticks >= 1

====
